---- MODULE Spec2Model ----
(***************************************************************************)
(* Verification model of the DiscreteStrucutreAndAlgoApp repository: a     *)
(* collection of independent single-file Tkinter applications.  Each       *)
(* application studied here is modelled by one record-valued variable and  *)
(* has its own specification; the variables of the other applications      *)
(* keep their "Off" value while an application is being explored.          *)
(***************************************************************************)
EXTENDS Naturals, Integers, Sequences, FiniteSets, TLC

VARIABLES
    dj,         \* one run of one of the three dijkstra() implementations
    sim,        \* the running simulator application with a worker thread
    bfapp,      \* Bellman-Ford vs Dijkstra Comparison (BFvsDijkstraApp)
    ham,        \* Hamiltonian Cycle Detector (HamiltonianFinder)
    euler,      \* Euler Path & Circuit Finder (find_euler_*)
    flow,       \* Ford-Fulkerson Simulator (FlowGraph.edmonds_karp)
    signed,     \* dijkstra() and bellman_ford() on graphs with weights of any sign
    circuit,    \* Logic circuit simulator (CircuitApp)
    scc,        \* tarjan_scc
    maze,       \* Maze generator and solver (MazeApp)
    hamapp,     \* Hamiltonian Cycle Detector, the application around the finder
    perm,       \* Circular permutation visualizer (CircularPermApp)
    trav        \* Graph traversal visualizer (GraphTraversalApp)

vars == <<dj, sim, bfapp, ham, euler, flow, signed, circuit, scc, maze, hamapp, perm, trav>>

\* What an application leaves alone: the other applications.
DjFrame ==
    UNCHANGED <<sim, bfapp, ham, euler, flow, signed, circuit, scc, maze, hamapp, perm, trav>>
SimFrame ==
    UNCHANGED <<dj, bfapp, ham, euler, flow, signed, circuit, scc, maze, hamapp, perm, trav>>
BFAppFrame ==
    UNCHANGED <<dj, sim, ham, euler, flow, signed, circuit, scc, maze, hamapp, perm, trav>>
HamFrame ==
    UNCHANGED <<dj, sim, bfapp, euler, flow, signed, circuit, scc, maze, hamapp, perm, trav>>
EulerFrame ==
    UNCHANGED <<dj, sim, bfapp, ham, flow, signed, circuit, scc, maze, hamapp, perm, trav>>
FlowFrame ==
    UNCHANGED <<dj, sim, bfapp, ham, euler, signed, circuit, scc, maze, hamapp, perm, trav>>
SignedFrame ==
    UNCHANGED <<dj, sim, bfapp, ham, euler, flow, circuit, scc, maze, hamapp, perm, trav>>
CircuitFrame ==
    UNCHANGED <<dj, sim, bfapp, ham, euler, flow, signed, scc, maze, hamapp, perm, trav>>
SccFrame ==
    UNCHANGED <<dj, sim, bfapp, ham, euler, flow, signed, circuit, maze, hamapp, perm, trav>>
MazeFrame ==
    UNCHANGED <<dj, sim, bfapp, ham, euler, flow, signed, circuit, scc, hamapp, perm, trav>>
HamAppFrame ==
    UNCHANGED <<dj, sim, bfapp, ham, euler, flow, signed, circuit, scc, maze, perm, trav>>
PermFrame ==
    UNCHANGED <<dj, sim, bfapp, ham, euler, flow, signed, circuit, scc, maze, hamapp, trav>>
TravFrame ==
    UNCHANGED <<dj, sim, bfapp, ham, euler, flow, signed, circuit, scc, maze, hamapp, perm>>

\* The value of the variable of an application that is not running.
Off == [app |-> "off"]

(***************************************************************************)
(* Bounds of the exploration.                                              *)
(***************************************************************************)
NumNodes == 3
MaxEdges == 3
MaxWeight == 1

Nodes == 0 .. (NumNodes - 1)
Weights == 0 .. MaxWeight

\* math.inf / float("inf"): larger than the weight of every walk the
\* algorithms can build within the bounds.
Inf == (NumNodes + 1) * MaxWeight + 1
\* Python's None for predecessors and for "no result".
None == -1

Min(S) == CHOOSE x \in S : \A y \in S : x <= y

(***************************************************************************)
(* Bounded inputs: edges "u v w" between distinct nodes, entered one per   *)
(* line / per Add click in increasing order of (u, v, w), at most MaxEdges *)
(* of them.  The undirected graphs get each edge once, with u < v.         *)
(***************************************************************************)
EdgeCode(u, v, w) == (u * NumNodes + v) * (MaxWeight + 1) + w

EdgeAllowed(u, v, directed) == IF directed THEN u # v ELSE u < v

EmptyAdj == [n \in Nodes |-> <<>>]

DjOff == [impl |-> "off"]

DjFresh(impl, directed) ==
    [impl |-> impl, directed |-> directed,
     adj |-> EmptyAdj, nodes |-> {}, edges |-> <<>>,
     nlines |-> 0, last |-> -1,
     source |-> None, target |-> None,
     dist |-> [n \in Nodes |-> Inf], prev |-> [n \in Nodes |-> None],
     heap |-> {}, pc |-> "edit", result |-> None]

InitDijkstra ==
    /\ sim = Off /\ bfapp = Off /\ ham = Off /\ euler = Off
    /\ flow = Off /\ signed = Off /\ circuit = Off /\ scc = Off /\ maze = Off /\ hamapp = Off /\ perm = Off /\ trav = Off
    /\ dj \in {DjFresh("bf", TRUE), DjFresh("bf", FALSE),
            DjFresh("sim", FALSE), DjFresh("sp", FALSE)}

CanAddLine(impl, u, v, w) ==
    /\ dj.impl = impl /\ dj.pc = "edit"
    /\ dj.nlines < MaxEdges
    /\ EdgeAllowed(u, v, dj.directed)
    /\ EdgeCode(u, v, w) > dj.last

(***************************************************************************)
(* Bellman-Ford vs Dijkstra Comparison App: class Graph.                   *)
(***************************************************************************)
\* Graph.add_edge(u, v, w, directed), called by parse_edges_text per line
add_edge ==
    /\ DjFrame
    /\ \E u \in Nodes, v \in Nodes, w \in Weights :
       /\ CanAddLine("bf", u, v, w)
       /\ LET a1 == [dj.adj EXCEPT ![u] = Append(@, <<v, w>>)]
          IN  dj' = [dj EXCEPT
                 !.adj = IF dj.directed THEN a1
                         ELSE [a1 EXCEPT ![v] = Append(@, <<u, w>>)],
                 !.nodes = @ \cup {u, v},
                 !.edges = IF dj.directed THEN Append(@, <<u, v, w>>)
                           ELSE @ \o <<(<<u, v, w>>), (<<v, u, w>>)>>,
                 !.nlines = @ + 1, !.last = EdgeCode(u, v, w)]

(***************************************************************************)
(* Dijkstra's Algorithm Simulator: DijkstraApp.add_edge fills a dict of    *)
(* dicts, graph[u][v] = w and graph[v][u] = w.  A dict keeps the position  *)
(* of a key that is assigned again.                                        *)
(***************************************************************************)
DictSet(items, k, val) ==
    IF \E i \in 1 .. Len(items) : items[i][1] = k
    THEN [i \in 1 .. Len(items) |->
             IF items[i][1] = k THEN <<k, val>> ELSE items[i]]
    ELSE Append(items, <<k, val>>)

sim_add_edge ==
    /\ DjFrame
    /\ \E u \in Nodes, v \in Nodes, w \in Weights :
       /\ CanAddLine("sim", u, v, w)
       /\ LET a1 == [dj.adj EXCEPT ![u] = DictSet(@, v, w)]
          IN  dj' = [dj EXCEPT
                 !.adj = [a1 EXCEPT ![v] = DictSet(@, u, w)],
                 !.nodes = @ \cup {u, v},
                 !.nlines = @ + 1, !.last = EdgeCode(u, v, w)]

(***************************************************************************)
(* Shortest Path Between Two Nodes Visualizer: ShortestPathApp.add_edge    *)
(* refuses self-loops and a second edge between the same two nodes.        *)
(***************************************************************************)
sp_add_edge ==
    /\ DjFrame
    /\ \E u \in Nodes, v \in Nodes, w \in Weights :
       /\ CanAddLine("sp", u, v, w)
       /\ IF \/ u = v
             \/ \E i \in 1 .. Len(dj.edges) :
                   \/ dj.edges[i][1] = u /\ dj.edges[i][2] = v
                   \/ dj.edges[i][1] = v /\ dj.edges[i][2] = u
          THEN dj' = [dj EXCEPT !.nlines = @ + 1, !.last = EdgeCode(u, v, w)]
          ELSE dj' = [dj EXCEPT !.edges = Append(@, <<u, v, w>>),
                                !.nodes = @ \cup {u, v},
                                !.nlines = @ + 1, !.last = EdgeCode(u, v, w)]

\* "build adjacency" inside dijkstra(nodes, edges, source, target)
RECURSIVE sp_build_adjacency(_, _)
sp_build_adjacency(g, edges) ==
    IF edges = <<>> THEN g
    ELSE LET u == edges[1][1]
             v == edges[1][2]
             w == edges[1][3]
             g1 == [g EXCEPT ![u] = Append(@, <<v, w>>)]
         IN  sp_build_adjacency([g1 EXCEPT ![v] = Append(@, <<u, w>>)], Tail(edges))

(***************************************************************************)
(* The three dijkstra() functions.  heapq over (distance, node) tuples:    *)
(* heappop returns the lexicographically least tuple.                      *)
(***************************************************************************)
HeapLess(a, b) == a[1] < b[1] \/ (a[1] = b[1] /\ a[2] < b[2])

\* Mutation of heappop: a max-heap, the entry with the greatest key comes first.
heappop_greatest(heap) == CHOOSE a \in heap : \A b \in heap \ {a} : HeapLess(b, a)

heappop(heap) == CHOOSE a \in heap : \A b \in heap \ {a} : HeapLess(a, b)

\* for v, w in adj[u]: nd = d + w; if nd < dist[v]: dist[v] = nd; prev[v] = u; push
RECURSIVE Relax(_, _, _, _)
Relax(items, d, u, st) ==
    IF items = <<>> THEN st
    ELSE LET v == items[1][1]
             nd == d + items[1][2]
         IN  Relax(Tail(items), d, u,
                   IF nd < st.dist[v]
                   THEN [dist |-> [st.dist EXCEPT ![v] = nd],
                         prev |-> [st.prev EXCEPT ![v] = u],
                         heap |-> st.heap \cup {<<nd, v>>}]
                   ELSE st)

\* One iteration of "while heap:" - pop, skip a stale entry, else relax.
PopAndRelax(r) ==
    LET top == heappop(r.heap)
        d == top[1]
        u == top[2]
        rest == [dist |-> r.dist, prev |-> r.prev, heap |-> r.heap \ {top}]
    IN  IF d > r.dist[u] THEN rest ELSE Relax(r.adj[u], d, u, rest)

\* dijkstra(graph, source) of the Bellman-Ford vs Dijkstra app
dijkstra_bf_begin ==
    /\ DjFrame
    /\ \E s \in Nodes :
       /\ dj.impl = "bf" /\ dj.pc = "edit"
       /\ dj' = IF s \notin dj.nodes
                THEN [dj EXCEPT !.source = s, !.pc = "done"]
                ELSE [dj EXCEPT !.source = s, !.dist[s] = 0,
                                !.heap = {<<0, s>>}, !.pc = "loop"]

dijkstra_bf_step ==
    /\ DjFrame
    /\ /\ dj.impl = "bf" /\ dj.pc = "loop"
    /\ LET st == PopAndRelax(dj)
       IN  dj' = [dj EXCEPT !.dist = st.dist, !.prev = st.prev, !.heap = st.heap,
                            !.pc = IF st.heap = {} THEN "done" ELSE "loop"]

\* DijkstraApp.run_dijkstra and dijkstra(graph, start) of the simulator
dijkstra_sim_begin ==
    /\ DjFrame
    /\ \E s \in Nodes :
       /\ dj.impl = "sim" /\ dj.pc = "edit"
       /\ dj' = IF s \notin dj.nodes
                THEN [dj EXCEPT !.source = s, !.pc = "rejected"]
                ELSE [dj EXCEPT !.source = s, !.dist[s] = 0,
                                !.heap = {<<0, s>>}, !.pc = "loop"]

dijkstra_sim_step ==
    /\ DjFrame
    /\ /\ dj.impl = "sim" /\ dj.pc = "loop"
    /\ LET st == PopAndRelax(dj)
       IN  dj' = [dj EXCEPT !.dist = st.dist, !.heap = st.heap,
                            !.pc = IF st.heap = {} THEN "done" ELSE "loop"]

\* dijkstra(nodes, edges, source, target) of the shortest path visualizer
sp_result(dist, target) == IF dist[target] = Inf THEN None ELSE dist[target]

dijkstra_sp_begin ==
    /\ DjFrame
    /\ \E s \in Nodes, t \in Nodes :
       /\ dj.impl = "sp" /\ dj.pc = "edit"
       /\ dj' = IF s \notin dj.nodes \/ t \notin dj.nodes
                THEN [dj EXCEPT !.source = s, !.target = t, !.pc = "done"]
                ELSE [dj EXCEPT !.source = s, !.target = t,
                                !.adj = sp_build_adjacency(EmptyAdj, dj.edges),
                                !.dist[s] = 0, !.heap = {<<0, s>>}, !.pc = "loop"]

dijkstra_sp_step ==
    /\ DjFrame
    /\ /\ dj.impl = "sp" /\ dj.pc = "loop"
    /\ LET top == heappop(dj.heap)
           st == PopAndRelax(dj)
       IN  IF top[1] <= dj.dist[top[2]] /\ top[2] = dj.target
           THEN dj' = [dj EXCEPT !.heap = dj.heap \ {top}, !.pc = "done",
                                 !.result = sp_result(dj.dist, dj.target)]
           ELSE dj' = [dj EXCEPT !.dist = st.dist, !.prev = st.prev, !.heap = st.heap,
                                 !.pc = IF st.heap = {} THEN "done" ELSE "loop",
                                 !.result = IF st.heap = {}
                                            THEN sp_result(st.dist, dj.target)
                                            ELSE None]

NextDijkstra ==
    \/ add_edge
    \/ sim_add_edge
    \/ sp_add_edge
    \/ dijkstra_bf_begin
    \/ dijkstra_bf_step
    \/ dijkstra_sim_begin
    \/ dijkstra_sim_step
    \/ dijkstra_sp_begin
    \/ dijkstra_sp_step

SpecDijkstra == InitDijkstra /\ [][NextDijkstra]_vars

\* The directed weighted edges the graph handed to dijkstra holds.
EdgesOfSeq(edges) == {edges[i] : i \in 1 .. Len(edges)}

EdgesOfAdj(adj) ==
    UNION {{<<u, adj[u][i][1], adj[u][i][2]>> : i \in 1 .. Len(adj[u])} : u \in Nodes}

GraphEdges ==
    IF dj.impl = "bf" THEN EdgesOfSeq(dj.edges)
    ELSE IF dj.impl = "sim" THEN EdgesOfAdj(dj.adj)
    ELSE EdgesOfSeq(dj.edges) \cup {<<e[2], e[1], e[3]>> : e \in EdgesOfSeq(dj.edges)}

(***************************************************************************)
(* Reference for C1: the least total weight of a walk from s with at most  *)
(* k edges, for every node, computed over the edge set by exhaustive       *)
(* extension of walks (Inf when there is none).  With non-negative weights *)
(* a least-weight path never needs more than NumNodes - 1 edges.           *)
(***************************************************************************)
RECURSIVE MinWalk(_, _, _)
MinWalk(E, s, k) ==
    IF k = 0 THEN [t \in Nodes |-> IF t = s THEN 0 ELSE Inf]
    ELSE LET p == MinWalk(E, s, k - 1)
         IN  [t \in Nodes |->
                 Min({p[t]} \cup {p[e[1]] + e[3] : e \in {x \in E : x[2] = t /\ p[x[1]] < Inf}})]

ShortestDist(E, s) == MinWalk(E, s, NumNodes - 1)

\* C1: when a dijkstra implementation has returned, the distance it reports
\* for every node of the graph (for the target, in the shortest path
\* visualizer) is the least total weight of a path from the source, and
\* infinity / no result when there is no path.
C1_DijkstraShortest ==
    /\ (dj.impl \in {"bf", "sim"} /\ dj.pc = "done") =>
          \A v \in dj.nodes : dj.dist[v] = ShortestDist(GraphEdges, dj.source)[v]
    /\ (dj.impl = "sp" /\ dj.pc = "done") =>
          dj.result = IF dj.source \in dj.nodes /\ dj.target \in dj.nodes
                         /\ ShortestDist(GraphEdges, dj.source)[dj.target] < Inf
                      THEN ShortestDist(GraphEdges, dj.source)[dj.target]
                      ELSE None

\* A run has returned in which a node has direct edges from the source, all
\* of them heavier than the distance reported for the node: the least path
\* goes through another node.
C1_Witness ==
    /\ dj.impl # "off" /\ dj.pc = "done"
    /\ \E v \in dj.nodes \ {dj.source} :
          /\ dj.impl = "sp" => v = dj.target
          /\ dj.dist[v] < Inf
          /\ \E e \in GraphEdges : e[1] = dj.source /\ e[2] = v
          /\ \A e \in GraphEdges : (e[1] = dj.source /\ e[2] = v) => e[3] > dj.dist[v]

(***************************************************************************)
(* The simulators with a background worker thread.                         *)
(*                                                                         *)
(* A Tk application has one UI thread that runs one event handler at a     *)
(* time: a button click or a callback scheduled with after().  A worker    *)
(* thread runs beside it, statement by statement.  Each application keeps  *)
(*   threads   the worker threads that are alive, oldest first;            *)
(*   afterq    the callbacks scheduled with after(), in firing order (a    *)
(*             simulation starts only with fewer than MaxPending waiting); *)
(*   touched   the widgets a worker thread has read or written itself;     *)
(*   dialogs   the message boxes shown so far;                             *)
(*   uncaught  the exceptions that left a handler or a thread uncaught;    *)
(*   stopping  Stop was pressed while a worker was alive, no Run since;    *)
(*   cleared   Clear was pressed and no Run click has come since.          *)
(***************************************************************************)
MaxTrials == 2
MaxThreads == 2
MaxPending == 2

\* What the user typed into a numeric field: text the conversion rejects,
\* or a number.
BadText == [ok |-> FALSE, v |-> 0]
Number(k) == [ok |-> TRUE, v |-> k]
TrialsInputs == {BadText} \cup {Number(k) : k \in 0 .. MaxTrials}

RemoveAt(seq, i) == [j \in 1 .. (Len(seq) - 1) |-> IF j < i THEN seq[j] ELSE seq[j + 1]]

\* (i + 1) % max(1, trials // every) == 0
ProgressDue(i, trials, every) ==
    (i + 1) % (IF trials \div every > 1 THEN trials \div every ELSE 1) = 0

History == [touched |-> {}, dialogs |-> {}, uncaught |-> {},
            stopping |-> FALSE, cleared |-> FALSE]

(***************************************************************************)
(* Birthday Paradox Simulator.  results is the length of self.results.     *)
(***************************************************************************)
BirthdayInit ==
    [app |-> "birthday",
     running |-> FALSE, results |-> 0,
     run_btn |-> "normal", stop_btn |-> "disabled",
     threads |-> <<>>, afterq |-> <<>>] @@ History

\* BirthdaySimulatorApp.run_simulation_thread: the Run Simulation button
Birthday_run_simulation_thread ==
    /\ SimFrame
    /\ sim.app = "birthday"
    /\ sim.run_btn = "normal"
    /\ Len(sim.threads) < MaxThreads
    /\ \E trials \in TrialsInputs, people \in {BadText, Number(1), Number(2)},
          days \in {BadText, Number(0), Number(1)} :
          LET b == [sim EXCEPT !.cleared = FALSE]
          IN  IF sim.running
              THEN sim' = b
              ELSE IF ~trials.ok \/ trials.v <= 0
              THEN sim' = [b EXCEPT !.dialogs = @ \cup {"Error"}]
              ELSE IF ~people.ok \/ ~days.ok
              THEN sim' = [b EXCEPT !.uncaught = @ \cup {"conversion"}]
              ELSE IF people.v <= 1 \/ days.v <= 0
              THEN sim' = [b EXCEPT !.dialogs = @ \cup {"Error"}]
              ELSE sim' = [b EXCEPT !.running = TRUE,
                                    !.run_btn = "disabled",
                                    !.stop_btn = "normal",
                                    !.results = 0,
                                    !.stopping = FALSE,
                                    !.threads = Append(@, [pc |-> "loop", trials |-> trials.v,
                                                           i |-> 0])]

\* BirthdaySimulatorApp._run_simulation: one iteration of "for i in range(trials)"
Birthday_run_simulation_loop ==
    /\ SimFrame
    /\ sim.app = "birthday"
    /\ \E t \in 1 .. Len(sim.threads) :
          LET w == sim.threads[t]
          IN  /\ w.pc = "loop"
              /\ w.i < w.trials
              /\ IF ~sim.running
                 THEN sim' = [sim EXCEPT !.threads[t].pc = "finish"]
                 ELSE sim' = [sim EXCEPT
                                !.threads[t].i = @ + 1,
                                \* self._append_log(...) called by the worker
                                !.touched = IF ProgressDue(w.i, w.trials, 10)
                                            THEN @ \cup {"log_text"} ELSE @]

\* ... after the loop: self.running = False; self.results = collisions_counts
Birthday_run_simulation_finish ==
    /\ SimFrame
    /\ sim.app = "birthday"
    /\ \E t \in 1 .. Len(sim.threads) :
          LET w == sim.threads[t]
          IN  /\ w.pc = "finish" \/ (w.pc = "loop" /\ w.i = w.trials)
              /\ sim' = [sim EXCEPT !.running = FALSE,
                                    !.results = w.i,
                                    !.threads[t].pc = "after"]

\* ... self.after(10, lambda: self._finalize_simulation(...)), the last
\* statement of the thread
Birthday_run_simulation_after ==
    /\ SimFrame
    /\ sim.app = "birthday"
    /\ \E t \in 1 .. Len(sim.threads) :
          /\ sim.threads[t].pc = "after"
          /\ sim' = [sim EXCEPT !.afterq = Append(@, "_finalize_simulation"),
                                !.threads = RemoveAt(@, t)]

\* BirthdaySimulatorApp._finalize_simulation, run by the UI thread
Birthday_finalize_simulation ==
    /\ SimFrame
    /\ sim.app = "birthday"
    /\ sim.afterq # <<>>
    /\ Head(sim.afterq) = "_finalize_simulation"
    /\ sim' = [sim EXCEPT !.afterq = Tail(@),
                          !.run_btn = "normal",
                          !.stop_btn = "disabled"]

\* BirthdaySimulatorApp.stop_simulation: the Stop button
Birthday_stop_simulation ==
    /\ SimFrame
    /\ sim.app = "birthday"
    /\ sim.stop_btn = "normal"
    /\ IF ~sim.running
       THEN sim' = sim
       ELSE sim' = [sim EXCEPT !.running = FALSE,
                               !.stopping = (sim.threads # <<>>)]

\* BirthdaySimulatorApp.clear_results: the Clear Results button, confirmed
Birthday_clear_results ==
    /\ SimFrame
    /\ sim.app = "birthday"
    /\ sim' = [sim EXCEPT !.results = 0, !.cleared = TRUE]

NextBirthday ==
    \/ Birthday_run_simulation_thread
    \/ Birthday_run_simulation_loop
    \/ Birthday_run_simulation_finish
    \/ Birthday_run_simulation_after
    \/ Birthday_finalize_simulation
    \/ Birthday_stop_simulation
    \/ Birthday_clear_results

(***************************************************************************)
(* Coin Toss / Dice Roll Simulator (SimulatorApp).  results is 0 for the   *)
(* empty dict and otherwise 1 plus the number of trials counted.           *)
(***************************************************************************)
CoinDiceInit ==
    [app |-> "coindice",
     _stop_sim |-> FALSE, results |-> 0,
     run_btn |-> "normal", stop_btn |-> "disabled",
     threads |-> <<>>, afterq |-> <<>>] @@ History

\* SimulatorApp.run_simulation: the Run button
CoinDice_run_simulation ==
    /\ SimFrame
    /\ sim.app = "coindice"
    /\ sim.run_btn = "normal"
    /\ Len(sim.threads) < MaxThreads
    /\ \E trials \in TrialsInputs :
          LET b == [sim EXCEPT !.cleared = FALSE]
          IN  IF ~trials.ok \/ trials.v <= 0
              THEN sim' = [b EXCEPT !.dialogs = @ \cup {"Invalid trials"}]
              ELSE sim' = [b EXCEPT !.run_btn = "disabled",
                                    !.stop_btn = "normal",
                                    !.results = 0,
                                    !._stop_sim = FALSE,
                                    !.stopping = FALSE,
                                    !.threads = Append(@, [pc |-> "read", trials |-> trials.v,
                                                           i |-> 0, sim_type |-> "coin",
                                                           sides |-> 0])]

\* SimulatorApp._stop: the Stop button
CoinDice_stop ==
    /\ SimFrame
    /\ sim.app = "coindice"
    /\ sim.stop_btn = "normal"
    /\ sim' = [sim EXCEPT !._stop_sim = TRUE, !.stop_btn = "disabled",
                          !.stopping = (sim.threads # <<>>)]

\* SimulatorApp._simulate_thread: the worker reads the Tk variables
\* sim_type, coin_bias, dice_sides and dice_count
CoinDice_simulate_thread_read ==
    /\ SimFrame
    /\ sim.app = "coindice"
    /\ \E t \in 1 .. Len(sim.threads) :
       \E sim_type \in {"coin", "dice", "both"}, coin_bias \in {BadText, Number(1)},
          dice_sides \in {BadText, Number(0), Number(2)},
          dice_count \in {BadText, Number(1)} :
          LET coin == sim_type \in {"coin", "both"}
              dice == sim_type \in {"dice", "both"}
              read == {"sim_type"} \cup (IF coin THEN {"coin_bias"} ELSE {})
                         \cup (IF dice /\ (coin => coin_bias.ok) THEN {"dice_sides"} ELSE {})
                         \cup (IF dice /\ (coin => coin_bias.ok) /\ dice_sides.ok
                               THEN {"dice_count"} ELSE {})
          IN  /\ sim.threads[t].pc = "read"
              /\ IF (coin /\ ~coin_bias.ok) \/ (dice /\ (~dice_sides.ok \/ ~dice_count.ok))
                 THEN \* TclError ends the thread
                      sim' = [sim EXCEPT !.touched = @ \cup read,
                                         !.uncaught = @ \cup {"conversion"},
                                         !.threads = RemoveAt(@, t)]
                 ELSE sim' = [sim EXCEPT !.touched = @ \cup read,
                                         !.threads[t].pc = "loop",
                                         !.threads[t].sim_type = sim_type,
                                         !.threads[t].sides =
                                             IF dice THEN dice_sides.v ELSE 0]

\* ... one iteration of "for i in range(trials)"
CoinDice_simulate_thread_loop ==
    /\ SimFrame
    /\ sim.app = "coindice"
    /\ \E t \in 1 .. Len(sim.threads) :
          LET w == sim.threads[t]
          IN  /\ w.pc = "loop"
              /\ w.i < w.trials
              /\ IF sim._stop_sim
                 THEN sim' = [sim EXCEPT !.threads[t].pc = "store"]
                 ELSE IF w.sim_type \in {"dice", "both"} /\ w.sides < 1
                 THEN \* random.randint(1, sides) raises ValueError
                      sim' = [sim EXCEPT !.uncaught = @ \cup {"randint"},
                                         !.threads = RemoveAt(@, t)]
                 ELSE sim' = [sim EXCEPT
                                !.threads[t].i = @ + 1,
                                \* self._safe_update_progress(...) called by the worker
                                !.touched = IF ProgressDue(w.i, w.trials, 100)
                                               \/ w.i = w.trials - 1
                                            THEN @ \cup {"progress"} ELSE @]

\* ... self.results['coin'] = coin_counts; self.results['dice'] = dice_counts
CoinDice_simulate_thread_store ==
    /\ SimFrame
    /\ sim.app = "coindice"
    /\ \E t \in 1 .. Len(sim.threads) :
          LET w == sim.threads[t]
          IN  /\ w.pc = "store" \/ (w.pc = "loop" /\ w.i = w.trials)
              /\ sim' = [sim EXCEPT !.results = 1 + w.i,
                                    !.threads[t].pc = "finish"]

\* SimulatorApp._safe_finish, the last statement of the thread
CoinDice_safe_finish ==
    /\ SimFrame
    /\ sim.app = "coindice"
    /\ \E t \in 1 .. Len(sim.threads) :
          /\ sim.threads[t].pc = "finish"
          /\ sim' = [sim EXCEPT !.afterq = Append(@, "_finish_simulation"),
                                !.threads = RemoveAt(@, t)]

\* SimulatorApp._finish_simulation, run by the UI thread
CoinDice_finish_simulation ==
    /\ SimFrame
    /\ sim.app = "coindice"
    /\ sim.afterq # <<>>
    /\ Head(sim.afterq) = "_finish_simulation"
    /\ sim' = [sim EXCEPT !.afterq = Tail(@),
                          !.run_btn = "normal",
                          !.stop_btn = "disabled"]

NextCoinDice ==
    \/ CoinDice_run_simulation
    \/ CoinDice_stop
    \/ CoinDice_simulate_thread_read
    \/ CoinDice_simulate_thread_loop
    \/ CoinDice_simulate_thread_store
    \/ CoinDice_safe_finish
    \/ CoinDice_finish_simulation

(***************************************************************************)
(* Monte Carlo Simulator (MonteCarloApp).  last_samples is None or the     *)
(* number of samples drawn; run_btn is the state of self.btn_run.          *)
(***************************************************************************)
MonteCarloInit ==
    [app |-> "montecarlo",
     last_samples |-> None,
     run_btn |-> "normal", stop_btn |-> "disabled",
     threads |-> <<>>, afterq |-> <<>>] @@ History

\* MonteCarloApp._on_run: the Run Simulation button (btn_run)
MonteCarlo_on_run ==
    /\ SimFrame
    /\ sim.app = "montecarlo"
    /\ sim.run_btn = "normal"
    /\ Len(sim.threads) < MaxThreads
    /\ \E n \in ({BadText} \cup {Number(k) : k \in 0 .. 1}),
          choice \in {"Estimate pi", "Integral", "European Option"},
          a \in {BadText, Number(0)}, b \in {BadText, Number(1)},
          option \in {BadText, Number(1)} :
          LET m == [sim EXCEPT !.cleared = FALSE]
          IN  IF ~n.ok \/ n.v <= 0
              THEN sim' = [m EXCEPT !.dialogs = @ \cup {"Invalid samples"}]
              ELSE IF choice = "Integral" /\ (~a.ok \/ ~b.ok)
              THEN sim' = [m EXCEPT !.uncaught = @ \cup {"conversion"}]
              ELSE IF choice = "European Option" /\ ~option.ok
              THEN sim' = [m EXCEPT !.dialogs = @ \cup {"Invalid parameters"}]
              ELSE sim' = [m EXCEPT !.run_btn = "disabled",
                                    !.threads = Append(@, [pc |-> "sample", n |-> n.v])]

\* MonteCarloApp._run_simulation: estimate and self.last_samples = (...)
MonteCarlo_run_simulation_sample ==
    /\ SimFrame
    /\ sim.app = "montecarlo"
    /\ \E t \in 1 .. Len(sim.threads) :
          /\ sim.threads[t].pc = "sample"
          /\ sim' = [sim EXCEPT !.last_samples = sim.threads[t].n,
                                !.threads[t].pc = "progress"]

\* ... the loop of self.progress.step(10); self.update_idletasks()
MonteCarlo_run_simulation_progress ==
    /\ SimFrame
    /\ sim.app = "montecarlo"
    /\ \E t \in 1 .. Len(sim.threads) :
          /\ sim.threads[t].pc = "progress"
          /\ sim' = [sim EXCEPT !.touched = @ \cup {"progress"},
                                !.threads[t].pc = "_display_results"]

\* ... the four self.after(0, ...) calls, one at a time; the thread ends
\* with the last
MonteCarloAfterNext(pc) ==
    CASE pc = "_display_results" -> "btn_run.config"
      [] pc = "btn_run.config" -> "progress.config"
      [] pc = "progress.config" -> "_set_status"
      [] OTHER -> "return"

MonteCarlo_run_simulation_after ==
    /\ SimFrame
    /\ sim.app = "montecarlo"
    /\ \E t \in 1 .. Len(sim.threads) :
          LET pc == sim.threads[t].pc
          IN  /\ pc \in {"_display_results", "btn_run.config", "progress.config",
                         "_set_status"}
              /\ sim' = [sim EXCEPT
                           !.afterq = Append(@, pc),
                           !.threads = IF MonteCarloAfterNext(pc) = "return"
                                       THEN RemoveAt(@, t)
                                       ELSE [@ EXCEPT ![t].pc = MonteCarloAfterNext(pc)]]

\* The UI thread runs the next callback scheduled by the worker
MonteCarlo_callback ==
    /\ SimFrame
    /\ sim.app = "montecarlo"
    /\ sim.afterq # <<>>
    /\ LET cb == Head(sim.afterq)
       IN  sim' = [sim EXCEPT
                     !.afterq = Tail(@),
                     \* _display_results unpacks self.last_samples
                     !.uncaught = IF cb = "_display_results" /\ sim.last_samples = None
                                  THEN @ \cup {"TypeError"} ELSE @,
                     !.run_btn = IF cb = "btn_run.config" THEN "normal" ELSE @]

\* MonteCarloApp._clear: the Clear button
MonteCarlo_clear ==
    /\ SimFrame
    /\ sim.app = "montecarlo"
    /\ sim' = [sim EXCEPT !.last_samples = None, !.cleared = TRUE]

NextMonteCarlo ==
    \/ MonteCarlo_on_run
    \/ MonteCarlo_run_simulation_sample
    \/ MonteCarlo_run_simulation_progress
    \/ MonteCarlo_run_simulation_after
    \/ MonteCarlo_callback
    \/ MonteCarlo_clear

(***************************************************************************)
(* Lottery Probability Calculator (LotteryApp).  The thread in threads is  *)
(* self.sim_thread while it is alive; stop_btn is the state of             *)
(* self.stop_sim_btn; the button that starts a simulation is never         *)
(* disabled, which run_btn records.                                        *)
(***************************************************************************)
LotteryInit ==
    [app |-> "lottery",
     _stop_sim |-> FALSE,
     run_btn |-> "normal", stop_btn |-> "disabled",
     threads |-> <<>>, afterq |-> <<>>] @@ History

\* LotteryApp._start_simulation: the Run Monte Carlo Simulation button
Lottery_start_simulation ==
    /\ SimFrame
    /\ sim.app = "lottery"
    /\ Len(sim.afterq) < MaxPending
    /\ \E trials \in TrialsInputs, n \in {BadText, Number(1), Number(2)},
          k \in {BadText, Number(1)}, d \in {BadText, Number(0), Number(2)} :
          LET l == [sim EXCEPT !.cleared = FALSE]
          IN  IF sim.threads # <<>>
              THEN sim' = [l EXCEPT !.dialogs = @ \cup {"Simulation"}]
              ELSE IF ~trials.ok \/ trials.v <= 0
              THEN sim' = [l EXCEPT !.dialogs = @ \cup {"Invalid trials"}]
              ELSE IF ~n.ok \/ ~k.ok \/ ~d.ok
              THEN sim' = [l EXCEPT !.uncaught = @ \cup {"conversion"}]
              ELSE IF ~(1 <= k.v /\ k.v <= n.v /\ 1 <= d.v /\ d.v <= n.v)
              THEN sim' = [l EXCEPT !.dialogs = @ \cup {"Invalid parameters"}]
              ELSE sim' = [l EXCEPT !._stop_sim = FALSE,
                                    !.stop_btn = "normal",
                                    !.stopping = FALSE,
                                    !.threads = <<[pc |-> "loop", trials |-> trials.v,
                                                   i |-> 0]>>]

\* LotteryApp._simulate: one iteration of "for i in range(trials)"
Lottery_simulate_loop ==
    /\ SimFrame
    /\ sim.app = "lottery"
    /\ \E t \in 1 .. Len(sim.threads) :
          LET w == sim.threads[t]
          IN  /\ w.pc = "loop"
              /\ w.i < w.trials
              /\ IF sim._stop_sim
                 THEN sim' = [sim EXCEPT !.threads[t].pc = "sim_progress.configure"]
                 ELSE sim' = [sim EXCEPT
                                !.threads[t].i = @ + 1,
                                !.afterq = IF ProgressDue(w.i, w.trials, 200)
                                              \/ w.i = w.trials - 1
                                           THEN Append(@, [fn |-> "sim_progress.step",
                                                           counted |-> w.i + 1])
                                           ELSE @]

\* ... the three self.after(0, ...) calls after the loop, one at a time; the
\* thread ends with the last
Lottery_simulate_after ==
    /\ SimFrame
    /\ sim.app = "lottery"
    /\ \E t \in 1 .. Len(sim.threads) :
          LET w == sim.threads[t]
              pc == IF w.pc = "loop" THEN "sim_progress.configure" ELSE w.pc
          IN  /\ w.pc = "loop" => w.i = w.trials
              /\ sim' = [sim EXCEPT
                           !.afterq = Append(@, [fn |-> pc, counted |-> w.i]),
                           !.threads =
                               IF pc = "sim_progress.configure"
                               THEN [@ EXCEPT ![t].pc = "_show_sim_results"]
                               ELSE IF pc = "_show_sim_results"
                               THEN [@ EXCEPT ![t].pc = "stop_sim_btn.config"]
                               ELSE RemoveAt(@, t)]

\* The UI thread runs the next callback scheduled by the worker.
\* _show_sim_results divides by p = cnt / trials for each of the match
\* counts 0 .. min(k, d), at least two of them.
Lottery_callback ==
    /\ SimFrame
    /\ sim.app = "lottery"
    /\ sim.afterq # <<>>
    /\ LET cb == Head(sim.afterq)
       IN  \E zero \in BOOLEAN :
              /\ (cb.fn = "_show_sim_results" /\ cb.counted < 2) => zero
              /\ cb.fn # "_show_sim_results" => ~zero
              /\ sim' = [sim EXCEPT
                           !.afterq = Tail(@),
                           !.uncaught = IF zero THEN @ \cup {"ZeroDivisionError"} ELSE @,
                           !.stop_btn = IF cb.fn = "stop_sim_btn.config"
                                        THEN "disabled" ELSE @]

\* LotteryApp._stop_simulation: the Stop button
Lottery_stop_simulation ==
    /\ SimFrame
    /\ sim.app = "lottery"
    /\ sim.stop_btn = "normal"
    /\ sim' = [sim EXCEPT !._stop_sim = TRUE, !.stop_btn = "disabled",
                          !.stopping = (sim.threads # <<>>)]

NextLottery ==
    \/ Lottery_start_simulation
    \/ Lottery_simulate_loop
    \/ Lottery_simulate_after
    \/ Lottery_callback
    \/ Lottery_stop_simulation

(***************************************************************************)
(* One simulator runs at a time; which one is chosen at start-up.          *)
(***************************************************************************)
InitSimulators ==
    /\ dj = DjOff /\ bfapp = Off /\ ham = Off /\ euler = Off
    /\ flow = Off /\ signed = Off /\ circuit = Off /\ scc = Off /\ maze = Off /\ hamapp = Off /\ perm = Off /\ trav = Off
    /\ sim \in {BirthdayInit, CoinDiceInit, MonteCarloInit, LotteryInit}

\* The steps of worker threads and of callbacks the UI thread owes; the
\* rest of NextSimulators are clicks, which the user may never make.
WorkerSteps ==
    \/ Birthday_run_simulation_loop
    \/ Birthday_run_simulation_finish
    \/ Birthday_run_simulation_after
    \/ Birthday_finalize_simulation
    \/ CoinDice_simulate_thread_read
    \/ CoinDice_simulate_thread_loop
    \/ CoinDice_simulate_thread_store
    \/ CoinDice_safe_finish
    \/ CoinDice_finish_simulation
    \/ MonteCarlo_run_simulation_sample
    \/ MonteCarlo_run_simulation_progress
    \/ MonteCarlo_run_simulation_after
    \/ MonteCarlo_callback
    \/ Lottery_simulate_loop
    \/ Lottery_simulate_after
    \/ Lottery_callback

NextSimulators ==
    \/ NextBirthday
    \/ NextCoinDice
    \/ NextMonteCarlo
    \/ NextLottery

SpecSimulators == InitSimulators /\ [][NextSimulators]_vars

\* Threads keep running and the Tk main loop keeps serving its callbacks.
FairSpecSimulators == SpecSimulators /\ WF_vars(WorkerSteps)

WorkerSimulators == {"birthday", "coindice", "montecarlo"}

\* The idle state: no worker alive, Run enabled, Stop disabled
Idle ==
    /\ sim.threads = <<>>
    /\ sim.run_btn = "normal"
    /\ sim.stop_btn = "disabled"

\* Nothing is running and nothing is left for the UI thread to do
Quiescent ==
    /\ sim.threads = <<>>
    /\ sim.afterq = <<>>

\* The in-memory model a simulator keeps is in its initial empty state
ModelEmpty ==
    CASE sim.app = "birthday" -> sim.results = 0
      [] sim.app = "coindice" -> sim.results = 0
      [] sim.app = "montecarlo" -> sim.last_samples = None
      [] OTHER -> TRUE

\* C2: in the birthday, coin/dice and Monte Carlo simulators at most one
\* worker thread is alive at any time, whatever the user clicks.
C2_AtMostOneWorker ==
    sim.app \in WorkerSimulators => Len(sim.threads) <= 1

\* C3: the worker thread of a simulator never reads or writes a widget
\* itself; all it does to the UI goes through after().
C3_WorkerNeverTouchesWidgets ==
    sim.app \in WorkerSimulators => sim.touched = {}

\* C4: once Stop is pressed while a worker is running, the application
\* eventually is idle: no worker alive, Run enabled, Stop disabled.
C4_StopLeadsToIdle ==
    (sim.app \in {"birthday", "coindice", "lottery"} /\ sim.stopping) ~> Idle

\* C5: no failed conversion of a user-entered field leaves a Run/Start
\* handler or a worker thread as an uncaught exception, without a dialog.
C5_ConversionFailureShowsDialog ==
    sim.app # "off" => "conversion" \notin sim.uncaught

\* C6: Run is never left disabled: when no worker is alive and no callback
\* is pending, the Run button is enabled.
C6_RunNeverLeftDisabled ==
    (sim.app # "off" /\ Quiescent) => sim.run_btn = "normal"

\* C7: after Clear, and until the next Run click, the in-memory model is
\* in its initial empty state, also when a simulation was in progress.
C7_ClearedModelStaysEmpty ==
    (sim.app # "off" /\ sim.cleared) => ModelEmpty

(***************************************************************************)
(* Bellman-Ford vs Dijkstra Comparison (BFvsDijkstraApp).                  *)
(*                                                                         *)
(* edges_txt is the text box, a sequence of lines: an edge "u v w", a      *)
(* comment, or a line Graph.parse_edges_text rejects.  graph is            *)
(* self.graph.  ran records the last Run Algorithms click that reached     *)
(* the algorithms: the graph handed to dijkstra() and bellman_ford(), and  *)
(* the text and the Directed setting at the click.                         *)
(***************************************************************************)
MaxLines == 2

EdgeLine(u, v, w) == [kind |-> "edge", u |-> u, v |-> v, w |-> w]
CommentLine == [kind |-> "comment", u |-> "", v |-> "", w |-> 0]
\* fewer than three fields, or a weight float() rejects
RejectedLine == [kind |-> "rejected", u |-> "", v |-> "", w |-> 0]

\* The lines the user types
TypedLines == {EdgeLine("A", "B", 1), EdgeLine("B", "C", 2), CommentLine, RejectedLine}

\* The sample the text box is filled with at start
SampleText ==
    <<CommentLine, EdgeLine("A", "B", 4), EdgeLine("A", "C", 2), EdgeLine("B", "C", -3),
      EdgeLine("B", "D", 2), EdgeLine("C", "D", 4)>>

\* Graph.__init__ / Graph.clear
EmptyGraph == [nodes_set |-> {}, edges |-> <<>>]

\* Graph.add_edge
Graph_add_edge(g, u, v, w, directed) ==
    [nodes_set |-> g.nodes_set \cup {u, v},
     edges |-> IF directed THEN Append(g.edges, <<u, v, w>>)
               ELSE g.edges \o <<(<<u, v, w>>), (<<v, u, w>>)>>]

\* Graph.parse_edges_text, line by line from line i on: the graph as the
\* call leaves it and whether it returned (ok) or raised ValueError
RECURSIVE parse_lines(_, _, _, _)
parse_lines(g, lines, i, directed) ==
    IF i > Len(lines) THEN [ok |-> TRUE, graph |-> g]
    ELSE IF lines[i].kind = "comment" THEN parse_lines(g, lines, i + 1, directed)
    ELSE IF lines[i].kind = "rejected" THEN [ok |-> FALSE, graph |-> g]
    ELSE parse_lines(Graph_add_edge(g, lines[i].u, lines[i].v, lines[i].w, directed),
                     lines, i + 1, directed)

parse_edges_text(text, directed) == parse_lines(EmptyGraph, text, 1, directed)

BFAppInit ==
    [app |-> "bfapp", edges_txt |-> SampleText, directed |-> FALSE,
     graph |-> EmptyGraph, dialogs |-> {}, ran |-> <<>>]

\* The user types one more line into the text box
BFApp_type_line ==
    /\ BFAppFrame
    /\ bfapp.app = "bfapp"
    /\ Len(bfapp.edges_txt) < MaxLines
    /\ \E line \in TypedLines :
          bfapp' = [bfapp EXCEPT !.edges_txt = Append(@, line)]

\* The user toggles the "Directed graph" checkbox
BFApp_toggle_directed ==
    /\ BFAppFrame
    /\ bfapp.app = "bfapp"
    /\ bfapp' = [bfapp EXCEPT !.directed = ~@]

\* BFvsDijkstraApp.build_graph applied to the application state b
build_graph(b) ==
    LET p == parse_edges_text(b.edges_txt, b.directed)
    IN  [b EXCEPT !.graph = p.graph,
                  !.dialogs = IF p.ok THEN @ ELSE @ \cup {"Parse error"}]

\* The Build Graph button
BFApp_build_graph ==
    /\ BFAppFrame
    /\ bfapp.app = "bfapp"
    /\ bfapp' = build_graph(bfapp)

\* BFvsDijkstraApp.clear_edges: the Clear button
BFApp_clear_edges ==
    /\ BFAppFrame
    /\ bfapp.app = "bfapp"
    /\ bfapp' = [bfapp EXCEPT !.edges_txt = <<>>, !.graph = EmptyGraph]

\* BFvsDijkstraApp.run_algorithms: the Run Algorithms button
BFApp_run_algorithms ==
    /\ BFAppFrame
    /\ bfapp.app = "bfapp"
    /\ \E source \in {"", "A"} :
          LET b == IF bfapp.graph.nodes_set = {} THEN build_graph(bfapp) ELSE bfapp
          IN  IF source = ""
              THEN bfapp' = [b EXCEPT !.dialogs = @ \cup {"Input"}]
              ELSE bfapp' = [b EXCEPT !.ran = <<[graph |-> b.graph,
                                                 edges_txt |-> b.edges_txt,
                                                 directed |-> b.directed]>>]

InitBFApp ==
    /\ dj = DjOff /\ sim = Off /\ ham = Off /\ euler = Off
    /\ flow = Off /\ signed = Off /\ circuit = Off /\ scc = Off /\ maze = Off /\ hamapp = Off /\ perm = Off /\ trav = Off
    /\ bfapp = BFAppInit

NextBFApp ==
    \/ BFApp_type_line
    \/ BFApp_toggle_directed
    \/ BFApp_build_graph
    \/ BFApp_clear_edges
    \/ BFApp_run_algorithms

SpecBFApp == InitBFApp /\ [][NextBFApp]_vars

\* C8: on every Run click the algorithms operate on exactly the graph that
\* a complete, successful parse of the text in the input box yields.
C8_RunUsesParsedText ==
    (bfapp.app = "bfapp" /\ bfapp.ran # <<>>) =>
        LET r == bfapp.ran[1]
            p == parse_edges_text(r.edges_txt, r.directed)
        IN  p.ok /\ r.graph = p.graph

(***************************************************************************)
(* Hamiltonian Cycle Detector: Graph and HamiltonianFinder.                *)
(*                                                                         *)
(* The search runs on its own thread, one step of backtrack() at a time,   *)
(* so that HamiltonianFinder.stop() can arrive between any two steps.      *)
(*   starts   the start nodes the outer "for start in nodes_sorted" has    *)
(*            still to try;                                                *)
(*   frames   for each active call of backtrack() that is inside its for   *)
(*            loop, the neighbours still to try, innermost last;           *)
(*   pc       "edit" while the graph is entered, then "outer", "call"      *)
(*            (backtrack(path) is entered), "loop", "ret" (a call has      *)
(*            returned without a cycle), "done".                           *)
(***************************************************************************)
HamNodes == 3
MaxLimit == 2

HamVertices == 0 .. (HamNodes - 1)

RECURSIVE SortedSeq(_)
SortedSeq(S) == IF S = {} THEN <<>> ELSE <<Min(S)>> \o SortedSeq(S \ {Min(S)})

Last(seq) == seq[Len(seq)]
Front(seq) == SubSeq(seq, 1, Len(seq) - 1)

\* Python's "<" on tuples of the same length
RECURSIVE TupleLess(_, _)
TupleLess(a, b) ==
    /\ a # <<>>
    /\ \/ Head(a) < Head(b)
       \/ Head(a) = Head(b) /\ TupleLess(Tail(a), Tail(b))

Rotations(cyc) ==
    {SubSeq(cyc, i + 1, Len(cyc)) \o SubSeq(cyc, 1, i) : i \in 0 .. (Len(cyc) - 1)}

Reversed(seq) == [i \in 1 .. Len(seq) |-> seq[Len(seq) + 1 - i]]

\* canonical_cycle: the least rotation of the cycle or of its reversal
canonical_cycle(cycle) ==
    LET cyc == Front(cycle)
        candidates == Rotations(cyc) \cup Rotations(Reversed(cyc))
    IN  CHOOSE best \in candidates :
            \A rot \in candidates : rot = best \/ TupleLess(best, rot)

HamFresh(directed) ==
    [app |-> "ham", directed |-> directed,
     adj |-> [v \in HamVertices |-> {}], nodes_set |-> {}, last |-> -1,
     pc |-> "edit", mode |-> "One", limit_val |-> 0, n |-> 0, starts |-> <<>>,
     visited |-> {}, path |-> <<>>, frames |-> <<>>,
     _stop |-> FALSE, cycles_set |-> {}, found_cycles |-> <<>>,
     result |-> <<>>, msg |-> ""]

\* Graph.add_edge(u, v); edges are entered in increasing order of (u, v)
Ham_add_edge ==
    /\ HamFrame
    /\ ham.app = "ham" /\ ham.pc = "edit"
    /\ \E u \in HamVertices, v \in HamVertices :
          /\ ham.directed \/ u <= v
          /\ u * HamNodes + v > ham.last
          /\ ham' = [ham EXCEPT
                       !.nodes_set = @ \cup {u, v},
                       !.adj = IF ham.directed
                               THEN [@ EXCEPT ![u] = @ \cup {v}]
                               ELSE [x \in HamVertices |->
                                       ham.adj[x] \cup (IF x = u THEN {v} ELSE {})
                                                  \cup (IF x = v THEN {u} ELSE {})],
                       !.last = u * HamNodes + v]

\* find_one_cycle / find_all_cycles(limit) up to the outer for loop
HamBegin(mode, limit) ==
    IF ham.nodes_set = {}
    THEN [ham EXCEPT !.pc = "done", !.mode = mode, !.msg = "Graph empty."]
    ELSE [ham EXCEPT !.pc = "outer", !.mode = mode, !.limit_val = limit,
                     !.n = Cardinality(ham.nodes_set),
                     !.starts = SortedSeq(ham.nodes_set)]

find_one_cycle ==
    /\ HamFrame
    /\ ham.app = "ham" /\ ham.pc = "edit"
    /\ ham' = HamBegin("One", 0)

find_all_cycles ==
    /\ HamFrame
    /\ ham.app = "ham" /\ ham.pc = "edit"
    /\ \E limit \in 1 .. MaxLimit : ham' = HamBegin("All", limit)

\* find_all_cycles returns
HamReturnAll(h) ==
    [h EXCEPT !.pc = "done", !.result = h.found_cycles,
              !.msg = IF h.found_cycles # <<>> THEN "Found cycle(s)."
                      ELSE "No Hamiltonian cycle exists."]

\* for start in nodes_sorted: ... backtrack([start])
Ham_next_start ==
    /\ HamFrame
    /\ ham.app = "ham" /\ ham.pc = "outer"
    /\ IF ham.starts = <<>>
       THEN IF ham.mode = "One"
            THEN ham' = [ham EXCEPT !.pc = "done",
                                    !.msg = "No Hamiltonian cycle exists."]
            ELSE ham' = HamReturnAll(ham)
       ELSE ham' = [ham EXCEPT !.starts = Tail(@),
                               !.visited = {Head(ham.starts)},
                               !.path = <<Head(ham.starts)>>,
                               !.pc = "call"]

\* backtrack(path) is entered: the stop test and the len(path) == n case,
\* or the start of its for loop
Ham_backtrack_enter ==
    /\ HamFrame
    /\ ham.app = "ham" /\ ham.pc = "call"
    /\ LET path == ham.path
           cycle == path \o <<path[1]>>
           \* self._is_neighbor(path[-1], path[0])
           closes == path[1] \in ham.adj[Last(path)]
           canon == canonical_cycle(cycle)
           found == Append(ham.found_cycles, canon \o <<canon[1]>>)
       IN  IF ham._stop
           THEN ham' = [ham EXCEPT !.pc = "ret"]
           ELSE IF Len(path) = ham.n /\ ham.mode = "One"
           THEN IF closes
                THEN ham' = [ham EXCEPT !.pc = "done", !.result = cycle,
                                        !.msg = "Hamiltonian cycle found."]
                ELSE ham' = [ham EXCEPT !.pc = "ret"]
           ELSE IF Len(path) = ham.n
           THEN IF closes /\ canon \notin ham.cycles_set
                THEN ham' = [ham EXCEPT !.pc = "ret",
                                        !.cycles_set = @ \cup {canon},
                                        !.found_cycles = found,
                                        !._stop = (Len(found) >= ham.limit_val)]
                ELSE ham' = [ham EXCEPT !.pc = "ret"]
           ELSE ham' = [ham EXCEPT !.pc = "loop",
                                   !.frames = Append(@, SortedSeq(ham.adj[Last(path)]))]

\* The neighbours of a for loop from the first one not in visited on
RECURSIVE SkipVisited(_, _)
SkipVisited(nbrs, visited) ==
    IF nbrs # <<>> /\ Head(nbrs) \in visited
    THEN SkipVisited(Tail(nbrs), visited)
    ELSE nbrs

\* for nbr in sorted(...): if nbr not in visited: ... backtrack(path)
Ham_backtrack_loop ==
    /\ HamFrame
    /\ ham.app = "ham" /\ ham.pc = "loop"
    /\ LET nbrs == SkipVisited(Last(ham.frames), ham.visited)
       IN  IF nbrs = <<>>
           THEN ham' = [ham EXCEPT !.frames = Front(@), !.pc = "ret"]
           ELSE ham' = [ham EXCEPT !.frames[Len(ham.frames)] = Tail(nbrs),
                                   !.visited = @ \cup {Head(nbrs)},
                                   !.path = Append(@, Head(nbrs)),
                                   !.pc = "call"]

\* A call of backtrack() has returned without a cycle: to the for loop of
\* the call that made it, or to the outer loop over the start nodes
Ham_backtrack_return ==
    /\ HamFrame
    /\ ham.app = "ham" /\ ham.pc = "ret"
    /\ IF ham.frames = <<>>
       THEN IF ~ham._stop
            THEN ham' = [ham EXCEPT !.pc = "outer"]
            ELSE IF ham.mode = "One"
            THEN ham' = [ham EXCEPT !.pc = "done", !.msg = "Search stopped."]
            ELSE ham' = HamReturnAll(ham)
       ELSE LET popped == [ham EXCEPT !.path = Front(@),
                                      !.visited = @ \ {Last(ham.path)}]
            IN  IF ham.mode = "All" /\ ham._stop
                THEN ham' = [popped EXCEPT !.frames = Front(@)]
                ELSE ham' = [popped EXCEPT !.pc = "loop"]

\* HamiltonianFinder.stop, called by App.stop_search while the search runs
Ham_stop ==
    /\ HamFrame
    /\ ham.app = "ham" /\ ham.pc \in {"outer", "call", "loop", "ret"}
    /\ ~ham._stop
    /\ ham' = [ham EXCEPT !._stop = TRUE]

InitHam ==
    /\ dj = DjOff /\ sim = Off /\ bfapp = Off /\ euler = Off
    /\ flow = Off /\ signed = Off /\ circuit = Off /\ scc = Off /\ maze = Off /\ hamapp = Off /\ perm = Off /\ trav = Off
    /\ ham \in {HamFresh(FALSE), HamFresh(TRUE)}

NextHam ==
    \/ Ham_add_edge
    \/ find_one_cycle
    \/ find_all_cycles
    \/ Ham_next_start
    \/ Ham_backtrack_enter
    \/ Ham_backtrack_loop
    \/ Ham_backtrack_return
    \/ Ham_stop

SpecHam == InitHam /\ [][NextHam]_vars

\* A closed vertex list that visits every vertex of the graph once and
\* follows an edge of the graph at every step
IsHamiltonianCycle(c) ==
    /\ Len(c) = Cardinality(ham.nodes_set) + 1
    /\ c[1] = Last(c)
    /\ {c[i] : i \in 1 .. (Len(c) - 1)} = ham.nodes_set
    /\ \A i \in 1 .. (Len(c) - 1) : c[i + 1] \in ham.adj[c[i]]

\* C9: every cycle that find_one_cycle returns or find_all_cycles lists,
\* in an undirected or a directed graph, is closed, visits every vertex
\* exactly once and takes an edge of the graph, in its direction, at each
\* step.
C9_ReportedCyclesAreHamiltonian ==
    ham.app = "ham" =>
        /\ (ham.mode = "One" /\ ham.result # <<>>) => IsHamiltonianCycle(ham.result)
        /\ \A i \in 1 .. Len(ham.found_cycles) : IsHamiltonianCycle(ham.found_cycles[i])

(***************************************************************************)
(* Euler Path & Circuit Finder: Multigraph and EulerFinder.                *)
(*                                                                         *)
(* edges[eid] is [u, v, used]; edge ids count from 1 here (from 0 in the   *)
(* code).  adj[u] is the list of (neighbour, eid) in insertion order.      *)
(* A search is find_euler_undirected or find_euler_directed up to the      *)
(* while loop, then one step per iteration of "while stack", then the      *)
(* reversal of path and the test that every edge was used.                 *)
(***************************************************************************)
EulerNodes == 3
EulerEdges == 3

EulerVertices == 0 .. (EulerNodes - 1)

EulerFresh(directed) ==
    [app |-> "euler", directed |-> directed,
     adj |-> [v \in EulerVertices |-> <<>>], edges |-> <<>>,
     pc |-> "edit", stack |-> <<>>, path |-> <<>>,
     adj_iter |-> [v \in EulerVertices |-> <<>>],
     result |-> <<>>, msg |-> ""]

\* Multigraph.add_edge
Multigraph_add_edge ==
    /\ EulerFrame
    /\ euler.app = "euler" /\ euler.pc = "edit"
    /\ Len(euler.edges) < EulerEdges
    /\ \E u \in EulerVertices, v \in EulerVertices :
          LET eid == Len(euler.edges) + 1
              adj1 == [euler.adj EXCEPT ![u] = Append(@, <<v, eid>>)]
          IN  euler' = [euler EXCEPT
                          !.edges = Append(@, [u |-> u, v |-> v, used |-> FALSE]),
                          !.adj = IF euler.directed THEN adj1
                                  ELSE [adj1 EXCEPT ![v] = Append(@, <<u, eid>>)]]

\* Multigraph.degree_info: how often n is the first / the second endpoint
OutDeg(edges, n) == Cardinality({e \in DOMAIN edges : edges[e].u = n})
InDeg(edges, n) == Cardinality({e \in DOMAIN edges : edges[e].v = n})

\* The keys of the dict deg in insertion order: the endpoints u, v of the
\* edges in the order they first occur
RECURSIVE DegKeys(_, _, _)
DegKeys(edges, e, keys) ==
    IF e > Len(edges) THEN keys
    ELSE LET seen == {keys[i] : i \in DOMAIN keys}
             k1 == IF edges[e].u \in seen THEN keys ELSE Append(keys, edges[e].u)
             k2 == IF edges[e].v \in seen \cup {edges[e].u} THEN k1
                   ELSE Append(k1, edges[e].v)
         IN  DegKeys(edges, e + 1, k2)

\* Multigraph.copy_edge_usage, then stack = [start], path = [], adj_iter
HierholzerStart(start) ==
    [euler EXCEPT !.edges = [e \in DOMAIN euler.edges |->
                                [euler.edges[e] EXCEPT !.used = FALSE]],
                  !.stack = <<start>>, !.path = <<>>,
                  !.adj_iter = euler.adj, !.pc = "run"]

EulerNone(msg) == [euler EXCEPT !.pc = "done", !.result = <<>>, !.msg = msg]

\* EulerFinder.find_euler_undirected up to the while loop
find_euler_undirected ==
    /\ EulerFrame
    /\ euler.app = "euler" /\ euler.pc = "edit" /\ ~euler.directed
    /\ LET edges == euler.edges
           nodes_with_edges == {edges[e].u : e \in DOMAIN edges}
                                  \cup {edges[e].v : e \in DOMAIN edges}
           keys == DegKeys(edges, 1, <<>>)
           odd == SelectSeq(keys, LAMBDA n : (OutDeg(edges, n) + InDeg(edges, n)) % 2 = 1)
       IN  IF nodes_with_edges = {}
           THEN euler' = EulerNone("Graph has no edges.")
           ELSE IF Len(odd) \notin {0, 2}
           THEN euler' = EulerNone("No Euler path/circuit: vertices have odd degree.")
           ELSE IF odd # <<>>
           THEN euler' = HierholzerStart(odd[1])
           ELSE \* next(iter(nodes_with_edges)): whichever the set yields first
                \E start \in nodes_with_edges : euler' = HierholzerStart(start)

\* EulerFinder.find_euler_directed up to the while loop
find_euler_directed ==
    /\ EulerFrame
    /\ euler.app = "euler" /\ euler.pc = "edit" /\ euler.directed
    /\ LET edges == euler.edges
           nodes == {edges[e].u : e \in DOMAIN edges} \cup {edges[e].v : e \in DOMAIN edges}
           diff(n) == OutDeg(edges, n) - InDeg(edges, n)
           start_candidates == {n \in nodes : diff(n) = 1}
           end_candidates == {n \in nodes : diff(n) = -1}
           counts == <<Cardinality(start_candidates), Cardinality(end_candidates)>>
       IN  IF nodes = {}
           THEN euler' = EulerNone("Graph has no edges.")
           ELSE IF \E n \in nodes : diff(n) \notin {-1, 0, 1}
           THEN euler' = EulerNone("Degree condition fails for directed Euler path/circuit.")
           ELSE IF counts \notin {<<0, 0>>, <<1, 1>>}
           THEN euler' = EulerNone("Directed Euler path/circuit not possible (degree mismatch).")
           ELSE IF start_candidates # {}
           THEN \E start \in start_candidates : euler' = HierholzerStart(start)
           ELSE \* any vertex with an outgoing edge, as the set yields them
                \E start \in {n \in nodes : OutDeg(edges, n) > 0} :
                    euler' = HierholzerStart(start)

\* Mutation of EdgeUnused: the used flag is ignored, every edge met in an
\* adjacency list counts as unused.
EdgeUnused_never_marked(edges, eid) == TRUE

\* if not graph.edges[eid][2]
EdgeUnused(edges, eid) == ~edges[eid].used

\* while adj_iter.get(v): u, eid = adj_iter[v].popleft(); if unused: ... break
\* The deque as the inner loop leaves it, and the edge it took (0: none)
RECURSIVE PopUntilUnused(_, _)
PopUntilUnused(deque, edges) ==
    IF deque = <<>> THEN [eid |-> 0, rest |-> <<>>]
    ELSE IF EdgeUnused(edges, Head(deque)[2])
    THEN [eid |-> Head(deque)[2], rest |-> Tail(deque)]
    ELSE PopUntilUnused(Tail(deque), edges)

\* The vertex pushed for the edge taken at v
Neighbor(directed, edge, v) ==
    IF directed THEN edge.v
    ELSE IF v = edge.u THEN edge.v ELSE edge.u

\* One iteration of "while stack"
Hierholzer_step ==
    /\ EulerFrame
    /\ euler.app = "euler" /\ euler.pc = "run"
    /\ euler.stack # <<>>
    /\ LET v == Last(euler.stack)
           p == PopUntilUnused(euler.adj_iter[v], euler.edges)
       IN  IF p.eid # 0
           THEN euler' = [euler EXCEPT
                            !.adj_iter[v] = p.rest,
                            !.edges[p.eid].used = TRUE,
                            !.stack = Append(@, Neighbor(euler.directed,
                                                         euler.edges[p.eid], v))]
           ELSE euler' = [euler EXCEPT
                            !.adj_iter[v] = p.rest,
                            !.path = Append(@, v),
                            !.stack = Front(@)]

\* path.reverse(); verify all edges used; return
Hierholzer_return ==
    /\ EulerFrame
    /\ euler.app = "euler" /\ euler.pc = "run"
    /\ euler.stack = <<>>
    /\ IF \E e \in DOMAIN euler.edges : ~euler.edges[e].used
       THEN euler' = [euler EXCEPT !.pc = "done", !.result = <<>>,
                                   !.path = Reversed(@),
                                   !.msg = "Graph is disconnected: some edges not reachable."]
       ELSE euler' = [euler EXCEPT !.pc = "done", !.result = Reversed(euler.path),
                                   !.path = Reversed(@),
                                   !.msg = "Euler path/circuit found."]

InitEuler ==
    /\ dj = DjOff /\ sim = Off /\ bfapp = Off /\ ham = Off
    /\ flow = Off /\ signed = Off /\ circuit = Off /\ scc = Off /\ maze = Off /\ hamapp = Off /\ perm = Off /\ trav = Off
    /\ euler \in {EulerFresh(FALSE), EulerFresh(TRUE)}

NextEuler ==
    \/ Multigraph_add_edge
    \/ find_euler_undirected
    \/ find_euler_directed
    \/ Hierholzer_step
    \/ Hierholzer_return

SpecEuler == InitEuler /\ [][NextEuler]_vars

\* How many steps of the vertex path go from a to b, and how many edges
\* of the multigraph do
PathSteps(path, a, b) ==
    Cardinality({i \in 1 .. (Len(path) - 1) : path[i] = a /\ path[i + 1] = b})
EdgesFromTo(edges, a, b) ==
    Cardinality({e \in DOMAIN edges : edges[e].u = a /\ edges[e].v = b})

\* The steps of the path and the edges pair off one to one: between any
\* two vertices there are as many steps as edges (for undirected graphs
\* counting both directions together)
TraversesEveryEdgeOnce(path, edges, directed) ==
    \A a \in EulerVertices, b \in EulerVertices :
        IF directed
        THEN PathSteps(path, a, b) = EdgesFromTo(edges, a, b)
        ELSE a <= b =>
               PathSteps(path, a, b) + (IF a = b THEN 0 ELSE PathSteps(path, b, a))
                 = EdgesFromTo(edges, a, b) + (IF a = b THEN 0 ELSE EdgesFromTo(edges, b, a))

\* C10: a vertex path returned by find_euler_undirected or
\* find_euler_directed for a multigraph with m edges has m + 1 vertices,
\* and its steps match the m edges one to one (in the edge's direction for
\* directed graphs): every edge is traversed exactly once.
C10_EulerPathUsesEveryEdgeOnce ==
    (euler.app = "euler" /\ euler.pc = "done" /\ euler.result # <<>>) =>
        /\ Len(euler.result) = Len(euler.edges) + 1
        /\ TraversesEveryEdgeOnce(euler.result, euler.edges, euler.directed)

\* A path was returned for a multigraph of EulerEdges edges, two of them
\* parallel or one a self-loop, and the path leaves a vertex and comes
\* back to it
C10_Witness ==
    /\ euler.app = "euler" /\ euler.pc = "done" /\ euler.result # <<>>
    /\ Len(euler.edges) = EulerEdges
    /\ \E i, j \in DOMAIN euler.result :
          /\ i + 1 < j
          /\ euler.result[i] = euler.result[j]
          /\ euler.result[i + 1] # euler.result[i]
    /\ \/ \E e \in DOMAIN euler.edges : euler.edges[e].u = euler.edges[e].v
       \/ \E e, f \in DOMAIN euler.edges :
             /\ e # f
             /\ {euler.edges[e].u, euler.edges[e].v} = {euler.edges[f].u, euler.edges[f].v}

(***************************************************************************)
(* Ford-Fulkerson Simulator: FlowGraph.                                    *)
(*                                                                         *)
(* A dict of dicts keeps insertion order: adj.keys is the order of the     *)
(* outer keys and adj.items[u] the list of (v, capacity) of the inner      *)
(* dict of u.  R is the residual graph of a run of edmonds_karp, kept the  *)
(* same way; one step of the model is one iteration of its "while True".   *)
(***************************************************************************)
FlowNodes == 3
\* as many add_edge calls as there are vertices
FlowEdges == FlowNodes
FlowCapacities == {1, 2}

FlowVertices == 0 .. (FlowNodes - 1)

\* d.get(k, 0) on a dict kept as a list of (key, value)
DictGet(items, k) ==
    IF \E i \in 1 .. Len(items) : items[i][1] = k
    THEN items[CHOOSE i \in 1 .. Len(items) : items[i][1] = k][2]
    ELSE 0

DictHas(items, k) == \E i \in 1 .. Len(items) : items[i][1] = k

SeqHas(seq, x) == \E i \in 1 .. Len(seq) : seq[i] = x

EmptyDicts == [u \in FlowVertices |-> <<>>]

FlowFresh ==
    [app |-> "flow",
     adj |-> [keys |-> <<>>, items |-> EmptyDicts], last |-> -1, nedges |-> 0,
     pc |-> "edit", source |-> None, sink |-> None,
     R |-> EmptyDicts, max_flow |-> 0, steps |-> 0]

\* FlowGraph.add_edge(u, v, cap) with cap > 0; the edges are entered in
\* increasing order of (u, v, cap)
FlowGraph_add_edge ==
    /\ FlowFrame
    /\ flow.app = "flow" /\ flow.pc = "edit"
    /\ \E u \in FlowVertices, v \in FlowVertices, cap \in FlowCapacities :
          LET code == (u * FlowNodes + v) * (Cardinality(FlowCapacities) + 1) + cap
              keys1 == IF SeqHas(flow.adj.keys, u) THEN flow.adj.keys
                       ELSE Append(flow.adj.keys, u)
              keys2 == IF SeqHas(keys1, v) THEN keys1 ELSE Append(keys1, v)
          IN  /\ code > flow.last
              /\ flow.nedges < FlowEdges
              /\ flow' = [flow EXCEPT
                            !.adj = [keys |-> keys2,
                                     items |-> [flow.adj.items EXCEPT
                                                  ![u] = DictSet(@, v, DictGet(@, v) + cap)]],
                            !.last = code,
                            !.nedges = @ + 1]

\* FlowGraph.build_residual, edge by edge: the inner loop over the items
\* of adj[u] from the i-th on
RECURSIVE residual_items(_, _, _, _)
residual_items(R, u, items, i) ==
    IF i > Len(items) THEN R
    ELSE LET v == items[i][1]
             R1 == [R EXCEPT ![u] = DictSet(@, v, items[i][2])]
             R2 == IF DictHas(R1[v], u) THEN R1
                   ELSE [R1 EXCEPT ![v] = DictSet(@, u, 0)]
         IN  residual_items(R2, u, items, i + 1)

\* ... and the outer loop over the keys of adj from the k-th on
RECURSIVE residual_keys(_, _, _)
residual_keys(R, adj, k) ==
    IF k > Len(adj.keys) THEN R
    ELSE residual_keys(residual_items(R, adj.keys[k], adj.items[adj.keys[k]], 1),
                       adj, k + 1)

build_residual(adj) == residual_keys(EmptyDicts, adj, 1)

\* for v, cap in R[u].items(): if v not in parent and cap > 0: ...
\* b is [parent, q]; parent is kept as the set of its keys and their values
RECURSIVE bfs_visit(_, _, _, _)
bfs_visit(b, u, items, i) ==
    IF i > Len(items) THEN b
    ELSE LET v == items[i][1]
         IN  IF v \notin b.seen /\ items[i][2] > 0
             THEN bfs_visit([seen |-> b.seen \cup {v},
                             parent |-> [b.parent EXCEPT ![v] = u],
                             q |-> Append(b.q, v)], u, items, i + 1)
             ELSE bfs_visit(b, u, items, i + 1)

\* while q and sink not in parent: u = q.popleft(); ...
RECURSIVE bfs(_, _, _)
bfs(R, b, sink) ==
    IF b.q = <<>> \/ sink \in b.seen THEN b
    ELSE bfs(R, bfs_visit([b EXCEPT !.q = Tail(@)], Head(b.q), R[Head(b.q)], 1), sink)

\* while v != source: u = parent[v]; path.append((u, v)); ... path.reverse()
RECURSIVE augmenting_path(_, _, _)
augmenting_path(parent, source, v) ==
    IF v = source THEN <<>>
    ELSE Append(augmenting_path(parent, source, parent[v]), <<parent[v], v>>)

\* Mutation: the path's forward capacities are not reduced
RECURSIVE apply_flow_forward_kept(_, _, _, _)
apply_flow_forward_kept(R, path, i, bottleneck) ==
    IF i > Len(path) THEN R
    ELSE LET u == path[i][1]
             v == path[i][2]
         IN  apply_flow_forward_kept(
                 [R EXCEPT ![v] = DictSet(@, u, DictGet(@, u) + bottleneck)],
                 path, i + 1, bottleneck)

\* for u, v in path: R[u][v] -= bottleneck; R[v][u] = ... + bottleneck
RECURSIVE apply_flow(_, _, _, _)
apply_flow(R, path, i, bottleneck) ==
    IF i > Len(path) THEN R
    ELSE LET u == path[i][1]
             v == path[i][2]
             R1 == [R EXCEPT ![u] = DictSet(@, v, DictGet(@, v) - bottleneck)]
             R2 == [R1 EXCEPT ![v] = DictSet(@, u, DictGet(@, u) + bottleneck)]
         IN  apply_flow(R2, path, i + 1, bottleneck)

\* App.compute_flow with distinct source and sink: edmonds_karp up to its
\* "while True"
compute_flow ==
    /\ FlowFrame
    /\ flow.app = "flow" /\ flow.pc = "edit"
    /\ \E source \in FlowVertices, sink \in FlowVertices :
          /\ source # sink
          /\ flow' = [flow EXCEPT !.source = source, !.sink = sink,
                                  !.R = build_residual(flow.adj),
                                  !.max_flow = 0, !.steps = 0, !.pc = "bfs"]

\* One iteration of "while True" in edmonds_karp
edmonds_karp ==
    /\ FlowFrame
    /\ flow.app = "flow" /\ flow.pc = "bfs"
    /\ LET b == bfs(flow.R,
                    [seen |-> {flow.source},
                     parent |-> [v \in FlowVertices |-> None],
                     q |-> <<flow.source>>],
                    flow.sink)
           path == augmenting_path(b.parent, flow.source, flow.sink)
           bottleneck == Min({DictGet(flow.R[path[i][1]], path[i][2]) : i \in DOMAIN path})
       IN  IF flow.sink \notin b.seen
           THEN flow' = [flow EXCEPT !.pc = "done"]
           ELSE flow' = [flow EXCEPT !.R = apply_flow(flow.R, path, 1, bottleneck),
                                     !.max_flow = @ + bottleneck,
                                     !.steps = @ + 1]

InitFlow ==
    /\ dj = DjOff /\ sim = Off /\ bfapp = Off /\ ham = Off /\ euler = Off
    /\ signed = Off /\ circuit = Off /\ scc = Off /\ maze = Off /\ hamapp = Off /\ perm = Off /\ trav = Off
    /\ flow = FlowFresh

NextFlow ==
    \/ FlowGraph_add_edge
    \/ compute_flow
    \/ edmonds_karp

SpecFlow == InitFlow /\ [][NextFlow]_vars

\* The capacity of the edges of the flow graph that lead from S out of S
RECURSIVE SumOver(_, _)
SumOver(pairs, adj) ==
    IF pairs = {} THEN 0
    ELSE LET p == CHOOSE p \in pairs : TRUE
         IN  DictGet(adj.items[p[1]], p[2]) + SumOver(pairs \ {p}, adj)

CutCapacity(S, adj) == SumOver(S \X (FlowVertices \ S), adj)

MinCutCapacity(adj, source, sink) ==
    Min({CutCapacity(S, adj) :
            S \in {T \in SUBSET FlowVertices : source \in T /\ sink \notin T}})

\* C11: for positive integer capacities and distinct source and sink,
\* edmonds_karp terminates, since every iteration adds at least 1 to
\* max_flow, which never exceeds the capacity leaving the source, and the
\* max_flow it returns is the capacity of a minimum source-sink cut.
C11_MaxFlowIsMinCut ==
    (flow.app = "flow" /\ flow.pc # "edit") =>
        /\ flow.steps <= flow.max_flow
        /\ flow.max_flow <= CutCapacity({flow.source}, flow.adj)
        /\ flow.pc = "done" =>
              flow.max_flow = MinCutCapacity(flow.adj, flow.source, flow.sink)

\* A finished run that augmented along two paths and whose flow is less than
\* the capacity leaving the source
C11_Witness ==
    /\ flow.app = "flow" /\ flow.pc = "done"
    /\ flow.steps >= 2
    /\ flow.max_flow < CutCapacity({flow.source}, flow.adj)

(***************************************************************************)
(* Bellman-Ford vs Dijkstra Comparison: the algorithms on signed weights.  *)
(*                                                                         *)
(* Weights and distances are Python floats.  float() accepts "-inf", so a  *)
(* weight is an integer or minus infinity; a distance is an integer,       *)
(* math.inf or minus infinity.  The graph is self.graph as Build Graph     *)
(* leaves it: the built-in sample, or up to SignedLines lines "u v w".     *)
(*   pc    "edit"; "bf" after a call of bellman_ford alone; for the Run    *)
(*         Algorithms click "dijkstra", "bellman", "paths" (the for loop   *)
(*         over the nodes), "walk" (inside reconstruct_path), "done".      *)
(***************************************************************************)
SignedNodes == 3
SignedLines == 2
SignedVertices == 1 .. SignedNodes

\* math.inf and float("-inf"), beyond every finite distance the model builds
FloatInf == 100
NegInf == 0 - FloatInf
SignedWeights == {-1, 1, NegInf}

\* float addition; inf + (-inf) does not occur
FAdd(a, b) ==
    IF a = NegInf \/ b = NegInf THEN NegInf
    ELSE IF a = FloatInf \/ b = FloatInf THEN FloatInf
    ELSE a + b

\* The sample text with A, B, C, D written 1, 2, 3, 4
SignedSample ==
    <<EdgeLine(1, 2, 4), EdgeLine(1, 3, 2), EdgeLine(2, 3, -3),
      EdgeLine(2, 4, 2), EdgeLine(3, 4, 4)>>

SignedFresh(directed, graph) ==
    [app |-> "signed", directed |-> directed, graph |-> graph,
     last |-> -1, nlines |-> 0, pc |-> "edit", source |-> None,
     dist |-> <<>>, prev |-> <<>>, heap |-> {},
     bf |-> [dist |-> <<>>, prev |-> <<>>, negative_cycle |-> FALSE],
     todo |-> <<>>, cur |-> None, path |-> <<>>]

\* One more line "u v w" of the text that Build Graph parses
Signed_add_edge ==
    /\ SignedFrame
    /\ signed.app = "signed" /\ signed.pc = "edit"
    /\ signed.last >= -1 /\ signed.nlines < SignedLines
    /\ \E u \in SignedVertices, v \in SignedVertices, w \in SignedWeights :
          LET code == ((u - 1) * SignedNodes + (v - 1)) * Cardinality(SignedWeights)
                         + Cardinality({x \in SignedWeights : x < w})
          IN  /\ code > signed.last
              /\ signed' = [signed EXCEPT
                               !.graph = Graph_add_edge(@, u, v, w, signed.directed),
                               !.last = code, !.nlines = @ + 1]

\* graph.adj.get(u, []): the (v, w) of the edges leaving u, in insertion order
RECURSIVE AdjList(_, _)
AdjList(edges, u) ==
    IF edges = <<>> THEN <<>>
    ELSE (IF Head(edges)[1] = u THEN <<(<<Head(edges)[2], Head(edges)[3]>>)>> ELSE <<>>)
         \o AdjList(Tail(edges), u)

\* for v, w in graph.adj.get(u, []): nd = d + w; if nd < dist[v]: ...
RECURSIVE dijkstra_relax(_, _, _, _)
dijkstra_relax(items, d, u, st) ==
    IF items = <<>> THEN st
    ELSE LET v == items[1][1]
             nd == FAdd(d, items[1][2])
         IN  dijkstra_relax(Tail(items), d, u,
                 IF nd < st.dist[v]
                 THEN [dist |-> [st.dist EXCEPT ![v] = nd],
                       prev |-> [st.prev EXCEPT ![v] = u],
                       heap |-> st.heap \cup {<<nd, v>>}]
                 ELSE st)

\* for u, v, w in graph.edges: if dist[u] != math.inf and dist[u] + w < dist[v]: ...
RECURSIVE bellman_ford_relax(_, _)
bellman_ford_relax(edges, st) ==
    IF edges = <<>> THEN st
    ELSE LET u == edges[1][1]
             v == edges[1][2]
             w == edges[1][3]
         IN  bellman_ford_relax(Tail(edges),
                 IF st.dist[u] # FloatInf /\ FAdd(st.dist[u], w) < st.dist[v]
                 THEN [dist |-> [st.dist EXCEPT ![v] = FAdd(st.dist[u], w)],
                       prev |-> [st.prev EXCEPT ![v] = u],
                       updated |-> TRUE]
                 ELSE st)

\* for i in range(n - 1): ...; if not updated: break
RECURSIVE bellman_ford_passes(_, _, _, _)
bellman_ford_passes(edges, st, i, n) ==
    IF i >= n - 1 THEN st
    ELSE LET st1 == bellman_ford_relax(edges, [st EXCEPT !.updated = FALSE])
         IN  IF st1.updated THEN bellman_ford_passes(edges, st1, i + 1, n) ELSE st1

\* bellman_ford(graph, source): dist, prev and negative_cycle
bellman_ford(graph, source) ==
    LET nodes == graph.nodes_set
        st0 == [dist |-> [x \in nodes |-> FloatInf], prev |-> [x \in nodes |-> None],
                updated |-> FALSE]
    IN  IF source \notin nodes
        THEN [dist |-> st0.dist, prev |-> st0.prev, negative_cycle |-> FALSE]
        ELSE LET st == bellman_ford_passes(graph.edges,
                           [st0 EXCEPT !.dist[source] = 0], 0, Cardinality(nodes))
             IN  [dist |-> st.dist, prev |-> st.prev,
                  negative_cycle |->
                      \E i \in DOMAIN graph.edges :
                         /\ st.dist[graph.edges[i][1]] # FloatInf
                         /\ FAdd(st.dist[graph.edges[i][1]], graph.edges[i][3])
                               < st.dist[graph.edges[i][2]]]

\* bellman_ford applied to the graph and a source
Signed_bellman_ford ==
    /\ SignedFrame
    /\ signed.app = "signed" /\ signed.pc = "edit"
    /\ \E source \in SignedVertices :
          signed' = [signed EXCEPT !.source = source,
                                   !.bf = bellman_ford(signed.graph, source),
                                   !.pc = "bf"]

\* BFvsDijkstraApp.run_algorithms with a source typed in, up to the loop of
\* dijkstra
Signed_run_algorithms ==
    /\ SignedFrame
    /\ signed.app = "signed" /\ signed.pc = "edit"
    /\ \E source \in SignedVertices :
          LET nodes == signed.graph.nodes_set
              dist == [x \in nodes |-> FloatInf]
              prev == [x \in nodes |-> None]
          IN  signed' =
                 IF source \notin nodes
                 THEN [signed EXCEPT !.source = source, !.dist = dist, !.prev = prev,
                                     !.pc = "bellman"]
                 ELSE [signed EXCEPT !.source = source,
                                     !.dist = [dist EXCEPT ![source] = 0],
                                     !.prev = prev, !.heap = {<<0, source>>},
                                     !.pc = "dijkstra"]

\* The sum of the negative finite weights: no walk without a repeated node
\* weighs less
RECURSIVE NegativeSum(_)
NegativeSum(edges) ==
    IF edges = <<>> THEN 0
    ELSE (IF edges[1][3] < 0 /\ edges[1][3] # NegInf THEN edges[1][3] ELSE 0)
         + NegativeSum(Tail(edges))

DistancesOfSimplePaths ==
    \A x \in DOMAIN signed.dist :
       signed.dist[x] = NegInf \/ signed.dist[x] >= NegativeSum(signed.graph.edges)

\* One iteration of "while heap:" in dijkstra; it is followed until a
\* distance has fallen below the weight of every simple path
Signed_dijkstra_step ==
    /\ SignedFrame
    /\ signed.app = "signed" /\ signed.pc = "dijkstra"
    /\ DistancesOfSimplePaths
    /\ IF signed.heap = {}
       THEN signed' = [signed EXCEPT !.pc = "bellman"]
       ELSE LET top == heappop(signed.heap)
                d == top[1]
                u == top[2]
                rest == [dist |-> signed.dist, prev |-> signed.prev,
                         heap |-> signed.heap \ {top}]
                st == IF d > signed.dist[u] THEN rest
                      ELSE dijkstra_relax(AdjList(signed.graph.edges, u), d, u, rest)
            IN  signed' = [signed EXCEPT !.dist = st.dist, !.prev = st.prev,
                                         !.heap = st.heap]

\* run_algorithms: bellman_ford(self.graph, source), up to
\* "for node in sorted(self.graph.nodes())"
Signed_run_bellman_ford ==
    /\ SignedFrame
    /\ signed.app = "signed" /\ signed.pc = "bellman"
    /\ signed' = [signed EXCEPT !.bf = bellman_ford(signed.graph, signed.source),
                                !.todo = SortedSeq(signed.graph.nodes_set),
                                !.pc = "paths"]

\* The next node of the for loop: reconstruct_path(bf_prev, node) is entered
Signed_reconstruct_path ==
    /\ SignedFrame
    /\ signed.app = "signed" /\ signed.pc = "paths"
    /\ IF signed.todo = <<>>
       THEN signed' = [signed EXCEPT !.pc = "done"]
       ELSE signed' = [signed EXCEPT !.cur = Head(signed.todo), !.path = <<>>,
                                     !.todo = Tail(@), !.pc = "walk"]

\* while cur is not None: path.append(cur); cur = prev[cur]
\* followed until the path is longer than the graph has nodes
Signed_reconstruct_step ==
    /\ SignedFrame
    /\ signed.app = "signed" /\ signed.pc = "walk"
    /\ Len(signed.path) <= Cardinality(signed.graph.nodes_set)
    /\ IF signed.cur = None
       THEN signed' = [signed EXCEPT !.pc = "paths"]
       ELSE signed' = [signed EXCEPT !.path = Append(@, signed.cur),
                                     !.cur = signed.bf.prev[signed.cur]]

InitSigned ==
    /\ dj = DjOff /\ sim = Off /\ bfapp = Off /\ ham = Off /\ euler = Off
    /\ flow = Off /\ circuit = Off /\ scc = Off /\ maze = Off /\ hamapp = Off /\ perm = Off /\ trav = Off
    /\ \E directed \in BOOLEAN :
          signed \in {SignedFresh(directed, EmptyGraph),
                      SignedFresh(directed, parse_edges_text(SignedSample, directed).graph)}

NextSigned ==
    \/ Signed_add_edge
    \/ Signed_bellman_ford
    \/ Signed_run_algorithms
    \/ Signed_dijkstra_step
    \/ Signed_run_bellman_ford
    \/ Signed_reconstruct_path
    \/ Signed_reconstruct_step

SpecSigned == InitSigned /\ [][NextSigned]_vars

\* The least weight of an edge from u to v, math.inf if there is none
EdgeWeight(edges, u, v) ==
    LET ws == {edges[i][3] : i \in {j \in DOMAIN edges : edges[j][1] = u /\ edges[j][2] = v}}
    IN  IF ws = {} THEN FloatInf ELSE Min(ws)

RECURSIVE ReachableFrom(_, _)
ReachableFrom(edges, S) ==
    LET T == S \cup {edges[i][2] : i \in {j \in DOMAIN edges : edges[j][1] \in S}}
    IN  IF T = S THEN S ELSE ReachableFrom(edges, T)

RECURSIVE CycleWeight(_, _, _)
CycleWeight(edges, c, i) ==
    IF i > Len(c) THEN 0
    ELSE FAdd(EdgeWeight(edges, c[i], c[(i % Len(c)) + 1]), CycleWeight(edges, c, i + 1))

\* A cycle of the graph, as the sequence of its distinct nodes, that weighs
\* less than 0 and has a node that can be reached from the source
HasReachableNegativeCycle(graph, source) ==
    /\ source \in graph.nodes_set
    /\ \E k \in 1 .. Cardinality(graph.nodes_set) :
          \E c \in [1 .. k -> ReachableFrom(graph.edges, {source})] :
             /\ \A i \in 1 .. k : \A j \in 1 .. k : c[i] = c[j] => i = j
             /\ \A i \in 1 .. k : EdgeWeight(graph.edges, c[i], c[(i % k) + 1]) # FloatInf
             /\ CycleWeight(graph.edges, c, 1) < 0

\* C12: bellman_ford returns negative_cycle = True if and only if the graph
\* contains a negative-weight cycle reachable from the source.
C12_NegativeCycleIffReported ==
    (signed.app = "signed" /\ signed.pc = "bf") =>
        (signed.bf.negative_cycle <=> HasReachableNegativeCycle(signed.graph, signed.source))

\* C16: run_algorithms terminates for every accepted graph and source.
\* dijkstra's distances are weights of walks, and a walk lighter than every
\* simple path has gone round a negative cycle that dijkstra goes round
\* again; prev does not change inside reconstruct_path, so a path longer
\* than the graph has nodes repeats without end.  Termination is therefore:
\* no distance of dijkstra falls below the weight of every simple path, and
\* no path of reconstruct_path gets longer than the graph has nodes.
C16_RunAlgorithmsTerminates ==
    signed.app = "signed" =>
        /\ signed.pc = "dijkstra" => DistancesOfSimplePaths
        /\ signed.pc = "walk" => Len(signed.path) <= Cardinality(signed.graph.nodes_set)

(***************************************************************************)
(* Logic Circuit Builder: Gate and CircuitApp.                             *)
(*                                                                         *)
(* gates is self.gates in insertion order; the gate at index i has the id  *)
(* "G<i>".  wires is self.wires.  The clicks that wire a pin are entered   *)
(* in the order of (target, pin, source), so a pin can be wired again from *)
(* a later source, which replaces its wire.  last tells what the last      *)
(* click did: "edit", "evaluated" or "cycle" (Evaluate showed the error).  *)
(***************************************************************************)
MaxGates == 2
\* as many wiring clicks as there are gates
MaxWires == MaxGates

PALETTE == {"INPUT", "OUTPUT", "AND", "OR", "NOT", "NAND", "NOR", "XOR"}

\* Gate.__init__ and _place_gate
num_inputs(kind) ==
    IF kind = "NOT" \/ kind = "OUTPUT" THEN 1
    ELSE IF kind = "INPUT" THEN 0 ELSE 2

\* Gate.evaluate
Gate_evaluate(gate, input_values) ==
    LET k == gate.kind
    IN  IF k = "INPUT" THEN gate.output_value
        ELSE IF k = "OUTPUT" THEN (IF input_values # <<>> THEN input_values[1] ELSE FALSE)
        ELSE IF k = "NOT" THEN ~input_values[1]
        ELSE LET a == input_values[1]
                 b == input_values[2]
             IN  IF k = "AND" THEN a /\ b
                 ELSE IF k = "OR" THEN a \/ b
                 ELSE IF k = "XOR" THEN (a /\ ~b) \/ (~a /\ b)
                 ELSE IF k = "NAND" THEN ~(a /\ b)
                 ELSE IF k = "NOR" THEN ~(a \/ b)
                 ELSE FALSE

CircuitInit ==
    [app |-> "circuit", gates |-> <<>>, wires |-> <<>>, nclicks |-> 0, lastw |-> -1,
     dialogs |-> {}, last |-> "edit"]

\* on_canvas_click on the empty canvas: _place_gate
Circuit_place_gate ==
    /\ CircuitFrame
    /\ circuit.app = "circuit"
    /\ Len(circuit.gates) < MaxGates
    /\ \E kind \in PALETTE :
          circuit' = [circuit EXCEPT
                         !.gates = Append(@, [kind |-> kind, output_value |-> FALSE]),
                         !.last = "edit"]

\* _input_pin_index_at: the pins a click on the input side of a gate can hit
InputPins(kind) == IF num_inputs(kind) = 1 THEN {0} ELSE {0, 1}

\* _add_wire
add_wire(c, from_gid, to_gid, to_pin_index) ==
    IF from_gid = to_gid
    THEN [c EXCEPT !.dialogs = @ \cup {"Invalid connection"}]
    ELSE [c EXCEPT !.wires =
             Append(SelectSeq(c.wires,
                              LAMBDA w : ~(w.to = to_gid /\ w.pin = to_pin_index)),
                    [from |-> from_gid, to |-> to_gid, pin |-> to_pin_index])]

\* on_canvas_click on an output pin and then on an input pin
Circuit_add_wire ==
    /\ CircuitFrame
    /\ circuit.app = "circuit"
    /\ circuit.nclicks < MaxWires
    /\ \E from_gid \in DOMAIN circuit.gates, to_gid \in DOMAIN circuit.gates :
          \E pin \in InputPins(circuit.gates[to_gid].kind) :
             LET code == ((to_gid - 1) * 2 + pin) * MaxGates + (from_gid - 1)
             IN  /\ code > circuit.lastw
                 /\ circuit' = [add_wire(circuit, from_gid, to_gid, pin) EXCEPT
                                   !.nclicks = @ + 1, !.lastw = code, !.last = "edit"]

\* on_double_click
Circuit_on_double_click ==
    /\ CircuitFrame
    /\ circuit.app = "circuit"
    /\ \E gid \in DOMAIN circuit.gates :
          /\ circuit.gates[gid].kind = "INPUT"
          /\ circuit' = [circuit EXCEPT !.gates[gid].output_value = ~@, !.last = "edit"]

\* [n for n, d in deps.items() if len(d) == 0], in dict order from gate i on
RECURSIVE NoDeps(_, _)
NoDeps(deps, i) ==
    IF i > Len(deps) THEN <<>>
    ELSE (IF deps[i] = {} THEN <<i>> ELSE <<>>) \o NoDeps(deps, i + 1)

\* The orders in which "for m in list(rev[n])" can go through a set
Orderings(S) ==
    {p \in [1 .. Cardinality(S) -> S] : \A i, j \in 1 .. Cardinality(S) : p[i] = p[j] => i = j}

\* "while S:" of Kahn's algorithm: every (L, deps) it can end with
RECURSIVE kahn(_, _, _)
kahn(deps, S, L) ==
    IF S = <<>> THEN {[L |-> L, deps |-> deps]}
    ELSE LET n == Last(S)
             deps1 == [m \in DOMAIN deps |-> deps[m] \ {n}]
             ready == {m \in DOMAIN deps : n \in deps[m] /\ deps1[m] = {}}
         IN  UNION {kahn(deps1, Front(S) \o p, Append(L, n)) : p \in Orderings(ready)}

\* Mutation: the gates in the order they were placed
insertion_order(gates, wires) ==
    {[ok |-> TRUE, order |-> [i \in DOMAIN gates |-> i]]}

\* CircuitApp._topological_order: the orders it can return, or the ValueError
_topological_order(gates, wires) ==
    LET deps == [dst \in DOMAIN gates |->
                    {wires[i].from : i \in {j \in DOMAIN wires : wires[j].to = dst}}]
    IN  {IF \E m \in DOMAIN r.deps : r.deps[m] # {}
         THEN [ok |-> FALSE, order |-> <<>>]
         ELSE [ok |-> TRUE, order |-> r.L] : r \in kahn(deps, NoDeps(deps, 1), <<>>)}

\* for w in self.wires: if w['to'][0] == gid: vals[pin] = self.gates[src].output_value
RECURSIVE gather_inputs(_, _, _, _, _)
gather_inputs(gates, wires, gid, vals, i) ==
    IF i > Len(wires) THEN vals
    ELSE gather_inputs(gates, wires, gid,
             IF wires[i].to = gid
             THEN [vals EXCEPT ![wires[i].pin + 1] = gates[wires[i].from].output_value]
             ELSE vals,
             i + 1)

\* for gid in order: ... g.output_value = g.evaluate(in_vals)
RECURSIVE evaluate_in_order(_, _, _, _)
evaluate_in_order(gates, wires, order, i) ==
    IF i > Len(order) THEN gates
    ELSE LET gid == order[i]
             g == gates[gid]
             in_vals == IF num_inputs(g.kind) > 0
                        THEN gather_inputs(gates, wires, gid,
                                 [p \in 1 .. num_inputs(g.kind) |-> FALSE], 1)
                        ELSE <<>>
         IN  evaluate_in_order([gates EXCEPT ![gid].output_value = Gate_evaluate(g, in_vals)],
                               wires, order, i + 1)

\* CircuitApp.evaluate_circuit: the Evaluate button
Circuit_evaluate_circuit ==
    /\ CircuitFrame
    /\ circuit.app = "circuit"
    /\ \E t \in _topological_order(circuit.gates, circuit.wires) :
          IF ~t.ok
          THEN circuit' = [circuit EXCEPT !.dialogs = @ \cup {"Evaluation error"},
                                          !.last = "cycle"]
          ELSE circuit' = [circuit EXCEPT
                              !.gates = evaluate_in_order(circuit.gates, circuit.wires, t.order, 1),
                              !.last = "evaluated"]

InitCircuit ==
    /\ dj = DjOff /\ sim = Off /\ bfapp = Off /\ ham = Off /\ euler = Off
    /\ flow = Off /\ signed = Off /\ scc = Off /\ maze = Off /\ hamapp = Off /\ perm = Off /\ trav = Off
    /\ circuit = CircuitInit

NextCircuit ==
    \/ Circuit_place_gate
    \/ Circuit_add_wire
    \/ Circuit_on_double_click
    \/ Circuit_evaluate_circuit

SpecCircuit == InitCircuit /\ [][NextCircuit]_vars

\* The gates that feed gate g through one or more wires
RECURSIVE Feeding(_, _)
Feeding(wires, S) ==
    LET T == S \cup {wires[i].from : i \in {j \in DOMAIN wires : wires[j].to \in S}}
    IN  IF T = S THEN S ELSE Feeding(wires, T)

Acyclic(gates, wires) ==
    \A i \in DOMAIN wires : wires[i].to \notin Feeding(wires, {wires[i].from})

\* What the pin of a gate reads: the output of the gate wired to it, False
\* if there is none
PinValue(gates, wires, gid, pin) ==
    IF \E i \in DOMAIN wires : wires[i].to = gid /\ wires[i].pin = pin
    THEN gates[(wires[CHOOSE i \in DOMAIN wires :
                         wires[i].to = gid /\ wires[i].pin = pin]).from].output_value
    ELSE FALSE

SccNodes == 3
\* as many lines as there are nodes
SccLines == SccNodes
SccVertices == 0 .. (SccNodes - 1)

SccInit == [app |-> "scc", edges |-> <<>>, pc |-> "edit", keys |-> <<>>, sccs |-> <<>>]

\* One more line "u v" in the input box
Scc_type_edge ==
    /\ SccFrame
    /\ scc.app = "scc" /\ scc.pc = "edit"
    /\ Len(scc.edges) < SccLines
    /\ \E u \in SccVertices, v \in SccVertices :
          scc' = [scc EXCEPT !.edges = Append(@, <<u, v>>)]

\* graph[u].append(v) for the edges: the keys graph has, in insertion order
RECURSIVE SourceKeys(_, _)
SourceKeys(edges, keys) ==
    IF edges = <<>> THEN keys
    ELSE SourceKeys(Tail(edges),
                    IF SeqHas(keys, Head(edges)[1]) THEN keys
                    ELSE Append(keys, Head(edges)[1]))

\* graph[v]: the neighbours of v in the order of the lines
RECURSIVE Neighbours(_, _)
Neighbours(edges, v) ==
    IF edges = <<>> THEN <<>>
    ELSE (IF Head(edges)[1] = v THEN <<Head(edges)[2]>> ELSE <<>>)
         \o Neighbours(Tail(edges), v)

\* parse_edges: the key orders the dict it returns can have
parse_edges(edges) ==
    LET nodes == {edges[i][1] : i \in DOMAIN edges} \cup {edges[i][2] : i \in DOMAIN edges}
        keys == SourceKeys(edges, <<>>)
    IN  {keys \o p : p \in Orderings({n \in nodes : ~SeqHas(keys, n)})}

\* while True: w = stack.pop(); onstack.remove(w); scc.append(w); if w == v: break
RECURSIVE pop_scc(_, _, _)
pop_scc(st, v, component) ==
    LET w == Last(st.stack)
        st1 == [st EXCEPT !.stack = Front(@), !.onstack = @ \ {w}]
    IN  IF w = v THEN [st1 EXCEPT !.sccs = Append(@, Append(component, w))]
        ELSE pop_scc(st1, v, Append(component, w))

\* Mutation: an edge to a node on the stack leaves lowlink[v] as it is
lowlink_unchanged(st, v, w) == st.lowlink[v]

\* elif w in onstack: lowlink[v] = min(lowlink[v], index_map[w])
lowlink_of_visited(st, v, w) ==
    IF w \in st.onstack THEN Min({st.lowlink[v], st.index_map[w]}) ELSE st.lowlink[v]

\* strongconnect(v) and its "for w in graph.get(v, [])" from the i-th
\* neighbour on
RECURSIVE strongconnect(_, _, _)
RECURSIVE strongconnect_loop(_, _, _, _, _)
strongconnect_loop(edges, st, v, nbrs, i) ==
    IF i > Len(nbrs)
    THEN (IF st.lowlink[v] = st.index_map[v] THEN pop_scc(st, v, <<>>) ELSE st)
    ELSE LET w == nbrs[i]
         IN  IF st.index_map[w] = None
             THEN LET st1 == strongconnect(edges, st, w)
                  IN  strongconnect_loop(edges,
                          [st1 EXCEPT !.lowlink[v] = Min({st1.lowlink[v], st1.lowlink[w]})],
                          v, nbrs, i + 1)
             ELSE strongconnect_loop(edges,
                      [st EXCEPT !.lowlink[v] = lowlink_of_visited(st, v, w)],
                      v, nbrs, i + 1)

strongconnect(edges, st, v) ==
    strongconnect_loop(edges,
        [st EXCEPT !.index_map[v] = st.index, !.lowlink[v] = st.index,
                   !.index = @ + 1, !.stack = Append(@, v), !.onstack = @ \cup {v}],
        v, Neighbours(edges, v), 1)

\* for v in list(graph.keys()): if v not in index_map: strongconnect(v)
RECURSIVE tarjan_roots(_, _, _, _)
tarjan_roots(edges, keys, i, st) ==
    IF i > Len(keys) THEN st
    ELSE tarjan_roots(edges, keys, i + 1,
                      IF st.index_map[keys[i]] = None
                      THEN strongconnect(edges, st, keys[i]) ELSE st)

\* tarjan_scc(graph) for the graph with these keys and edges
tarjan_scc(keys, edges) ==
    tarjan_roots(edges, keys, 1,
        [index |-> 0, index_map |-> [v \in SccVertices |-> None],
         lowlink |-> [v \in SccVertices |-> None],
         stack |-> <<>>, onstack |-> {}, sccs |-> <<>>]).sccs

\* SCCApp.find_sccs up to the call of tarjan_scc
Scc_find_sccs ==
    /\ SccFrame
    /\ scc.app = "scc" /\ scc.pc = "edit"
    /\ \E keys \in parse_edges(scc.edges) :
          scc' = [scc EXCEPT !.keys = keys, !.sccs = tarjan_scc(keys, scc.edges),
                             !.pc = "done"]

InitScc ==
    /\ dj = DjOff /\ sim = Off /\ bfapp = Off /\ ham = Off /\ euler = Off
    /\ flow = Off /\ signed = Off /\ circuit = Off /\ maze = Off /\ hamapp = Off /\ perm = Off /\ trav = Off
    /\ scc = SccInit

NextScc ==
    \/ Scc_type_edge
    \/ Scc_find_sccs

SpecScc == InitScc /\ [][NextScc]_vars

\* The nodes that can be reached from S along the edges
RECURSIVE SccReach(_, _)
SccReach(edges, S) ==
    LET T == S \cup {edges[i][2] : i \in {j \in DOMAIN edges : edges[j][1] \in S}}
    IN  IF T = S THEN S ELSE SccReach(edges, T)

\* C14: the components tarjan_scc returns are exactly the strongly
\* connected components: every node is in exactly one component, once, and
\* two nodes share a component if and only if each is reachable from the
\* other.
C14_TarjanComponents ==
    (scc.app = "scc" /\ scc.pc = "done") =>
        LET places(n) == {p \in {<<i, k>> : i \in DOMAIN scc.sccs, k \in 1 .. SccNodes} :
                             p[2] <= Len(scc.sccs[p[1]]) /\ scc.sccs[p[1]][p[2]] = n}
            nodes == {scc.keys[i] : i \in DOMAIN scc.keys}
            comp(n) == (CHOOSE p \in places(n) : TRUE)[1]
        IN  /\ \A i \in DOMAIN scc.sccs :
                  /\ Len(scc.sccs[i]) <= SccNodes
                  /\ \A k \in DOMAIN scc.sccs[i] : scc.sccs[i][k] \in nodes
            /\ \A n \in nodes : Cardinality(places(n)) = 1
            /\ \A a \in nodes : \A b \in nodes :
                  (comp(a) = comp(b)) <=>
                     (b \in SccReach(scc.edges, {a}) /\ a \in SccReach(scc.edges, {b}))

\* A graph with a component of two or more nodes and a node outside it that
\* the component reaches
C14_Witness ==
    /\ scc.app = "scc" /\ scc.pc = "done"
    /\ Len(scc.sccs) >= 2
    /\ \E i \in DOMAIN scc.sccs :
          /\ Len(scc.sccs[i]) >= 2
          /\ \E k \in DOMAIN scc.edges :
                /\ SeqHas(scc.sccs[i], scc.edges[k][1])
                /\ ~SeqHas(scc.sccs[i], scc.edges[k][2])

(***************************************************************************)
(* Maze Generator & Solver: Maze, generate_maze_dfs, bfs_solve, MazeApp.   *)
(*                                                                         *)
(* A cell is <<r, c>>; walls[cell][d] tells whether the cell has its wall  *)
(* in direction d (0 top, 1 right, 2 bottom, 3 left).  The generation is   *)
(* followed one iteration of "while stack:" at a time, random.choice being *)
(* any of the unvisited neighbours.  running is self.running, under which  *)
(* the Generate and Solve buttons do nothing.                              *)
(*   status  "Ready.", "Generating maze...", "Maze generated.",            *)
(*           "Error generating", "Solution found", "No path found."        *)
(***************************************************************************)
MaxRows == 3
MaxCols == 3

dr == <<-1, 0, 1, 0>>
dc == <<0, 1, 0, -1>>

Cells(rows, cols) == (0 .. (rows - 1)) \X (0 .. (cols - 1))

InGrid(m, cell) == cell \in Cells(m.rows, m.cols)

\* stands for None where a cell is expected
NoCell == <<-1, -1>>

\* Maze.__init__
Maze(rows, cols) ==
    [rows |-> rows, cols |-> cols,
     walls |-> [cell \in Cells(rows, cols) |-> [d \in 0 .. 3 |-> TRUE]],
     visited |-> {}]

MazeInit ==
    [app |-> "maze", maze |-> Maze(2, 2), has_maze |-> FALSE, running |-> FALSE,
     stack |-> <<>>, status |-> "Ready.", path |-> <<>>]

\* Mutation: only the wall of the cell itself is removed
remove_wall_one_side(m, cell, dir_idx) ==
    [m EXCEPT !.walls[cell][dir_idx] = FALSE]

\* Maze.remove_wall
remove_wall(m, cell, dir_idx) ==
    LET or_dir == (dir_idx + 2) % 4
        n == <<cell[1] + dr[dir_idx + 1], cell[2] + dc[dir_idx + 1]>>
        m1 == [m EXCEPT !.walls[cell][dir_idx] = FALSE]
    IN  IF InGrid(m, n) THEN [m1 EXCEPT !.walls[n][or_dir] = FALSE] ELSE m1

\* create_maze_model: max(2, int(self.rows.get())), max(2, int(self.cols.get()))
create_maze_model(rows, cols) ==
    Maze(IF rows > 2 THEN rows ELSE 2, IF cols > 2 THEN cols ELSE 2)

\* MazeApp.on_generate up to the loop of generate_maze_dfs
Maze_on_generate ==
    /\ MazeFrame
    /\ maze.app = "maze" /\ ~maze.running
    /\ \E rows \in 1 .. MaxRows, cols \in 1 .. MaxCols :
          maze' = [maze EXCEPT !.maze = [create_maze_model(rows, cols) EXCEPT
                                            !.visited = {<<0, 0>>}],
                               !.has_maze = TRUE, !.running = TRUE,
                               !.stack = <<(<<0, 0>>)>>,
                               !.status = "Generating maze...", !.path = <<>>]

\* MazeApp.on_generate when redraw_canvas or the delay raises, an entry not
\* holding a number: the maze is new, the except clause sets the status
Maze_on_generate_error ==
    /\ MazeFrame
    /\ maze.app = "maze" /\ ~maze.running
    /\ \E rows \in 1 .. MaxRows, cols \in 1 .. MaxCols :
          maze' = [maze EXCEPT !.maze = create_maze_model(rows, cols),
                               !.has_maze = TRUE, !.stack = <<>>,
                               !.status = "Error generating", !.path = <<>>]

\* One iteration of "while stack:" in generate_maze_dfs; when the stack is
\* empty on_generate goes on to "Maze generated."
Maze_generate_maze_dfs ==
    /\ MazeFrame
    /\ maze.app = "maze" /\ maze.running /\ maze.status = "Generating maze..."
    /\ IF maze.stack = <<>>
       THEN maze' = [maze EXCEPT !.running = FALSE, !.status = "Maze generated."]
       ELSE LET cell == Last(maze.stack)
                unv == {d \in 0 .. 3 :
                           LET n == <<cell[1] + dr[d + 1], cell[2] + dc[d + 1]>>
                           IN  InGrid(maze.maze, n) /\ n \notin maze.maze.visited}
            IN  IF unv # {}
                THEN \E dir_idx \in unv :
                        LET n == <<cell[1] + dr[dir_idx + 1], cell[2] + dc[dir_idx + 1]>>
                        IN  maze' = [maze EXCEPT
                                        !.maze = [remove_wall(maze.maze, cell, dir_idx)
                                                     EXCEPT !.visited = @ \cup {n}],
                                        !.stack = Append(@, n)]
                ELSE maze' = [maze EXCEPT !.stack = Front(@)]

\* for d in range(4): if not maze.walls[r][c][d]: ... q.append((nr, nc))
RECURSIVE bfs_neighbours(_, _, _, _)
bfs_neighbours(m, b, cell, d) ==
    IF d > 3 THEN b
    ELSE LET n == <<cell[1] + dr[d + 1], cell[2] + dc[d + 1]>>
         IN  bfs_neighbours(m,
                 IF ~m.walls[cell][d] /\ InGrid(m, n) /\ n \notin b.visited
                 THEN [visited |-> b.visited \cup {n},
                       parent |-> [b.parent EXCEPT ![n] = cell],
                       q |-> Append(b.q, n)]
                 ELSE b,
                 cell, d + 1)

\* while cur: path.append(cur); cur = parent[cur]   and   path.reverse()
RECURSIVE bfs_path(_, _)
bfs_path(parent, cur) ==
    IF cur = NoCell THEN <<>> ELSE Append(bfs_path(parent, parent[cur]), cur)

\* "while q:" of bfs_solve: the path, or <<>> for None
RECURSIVE bfs_loop(_, _, _)
bfs_loop(m, b, goal) ==
    IF b.q = <<>> THEN <<>>
    ELSE LET cell == Head(b.q)
         IN  IF cell = goal THEN bfs_path(b.parent, goal)
             ELSE bfs_loop(m, bfs_neighbours(m, [b EXCEPT !.q = Tail(@)], cell, 0), goal)

bfs_solve(m, start, goal) ==
    bfs_loop(m, [visited |-> {start},
                 parent |-> [cell \in Cells(m.rows, m.cols) |-> NoCell],
                 q |-> <<start>>], goal)

\* MazeApp.on_solve
Maze_on_solve ==
    /\ MazeFrame
    /\ maze.app = "maze" /\ ~maze.running /\ maze.has_maze
    /\ LET path == bfs_solve(maze.maze, <<0, 0>>, <<maze.maze.rows - 1, maze.maze.cols - 1>>)
       IN  maze' = [maze EXCEPT !.path = path,
                                !.status = IF path # <<>> THEN "Solution found"
                                           ELSE "No path found."]

InitMaze ==
    /\ dj = DjOff /\ sim = Off /\ bfapp = Off /\ ham = Off /\ euler = Off
    /\ flow = Off /\ signed = Off /\ circuit = Off /\ scc = Off /\ hamapp = Off /\ perm = Off /\ trav = Off
    /\ maze = MazeInit

NextMaze ==
    \/ Maze_on_generate
    \/ Maze_on_generate_error
    \/ Maze_generate_maze_dfs
    \/ Maze_on_solve

SpecMaze == InitMaze /\ [][NextMaze]_vars

\* The direction in which cell b lies next to cell a, 4 if it does not
Direction(a, b) ==
    IF \E d \in 0 .. 3 : b = <<a[1] + dr[d + 1], a[2] + dc[d + 1]>>
    THEN CHOOSE d \in 0 .. 3 : b = <<a[1] + dr[d + 1], a[2] + dc[d + 1]>>
    ELSE 4

\* Whether the last Generate ran to its end: every cell is visited
GenerateCompleted == maze.maze.visited = Cells(maze.maze.rows, maze.maze.cols)

HamiltonianCycles ==
    {c \in [1 .. (Cardinality(ham.nodes_set) + 1) -> ham.nodes_set] : IsHamiltonianCycle(c)}

\* Two closed vertex lists are the same cycle: one is a rotation of the
\* other or, in an undirected graph, of its reversal
SameCycle(c, d) ==
    \/ Front(d) \in Rotations(Front(c))
    \/ ~ham.directed /\ Front(d) \in Rotations(Reversed(Front(c)))

NumberOfCycles ==
    Cardinality({{d \in HamiltonianCycles : SameCycle(c, d)} : c \in HamiltonianCycles})

\* C17: when it is not stopped and the limit exceeds the number of cycles,
\* find_all_cycles returns exactly one representative of each Hamiltonian
\* cycle of the graph: every list it returns is a Hamiltonian cycle, and
\* every Hamiltonian cycle is the same cycle as exactly one of them.
C17_OneRepresentativePerCycle ==
    (/\ ham.app = "ham" /\ ham.pc = "done" /\ ham.mode = "All"
     /\ ham.nodes_set # {} /\ ~ham._stop
     /\ ham.limit_val > NumberOfCycles) =>
        /\ \A i \in DOMAIN ham.result : ham.result[i] \in HamiltonianCycles
        /\ \A c \in HamiltonianCycles :
              Cardinality({i \in DOMAIN ham.result : SameCycle(c, ham.result[i])}) = 1

\* C18: "No Hamiltonian cycle exists." is the result only for graphs that
\* have no Hamiltonian cycle, whether the search ran to its end or Stop was
\* pressed during it.  Graphs of fewer than three nodes, where a cycle would
\* take an edge twice or be a loop, are left aside.
C18_NoCycleMessageOnlyWithoutCycle ==
    (ham.app = "ham" /\ ham.msg = "No Hamiltonian cycle exists.") =>
        (Cardinality(ham.nodes_set) >= 3 => HamiltonianCycles = {})

(***************************************************************************)
(* Hamiltonian Cycle Detector: App, its finder objects and search thread.  *)
(*                                                                         *)
(* Every HamiltonianFinder(...) creates a new object; stops[k] is the      *)
(* _stop flag of the k-th object created, finder is the object self.finder *)
(* refers to.  The search thread is "started" until it evaluates           *)
(* self.finder in _search_one or _search_all, then "running" the object    *)
(* it found there (running), then "done".  The search itself is the one    *)
(* followed above; here it is SearchSteps calls of backtrack(), each       *)
(* testing self._stop.  early tells that the search ended on that test,    *)
(* stop_pressed that Stop was clicked while the thread was alive.  graph   *)
(* is "empty" after a graph-type change and "sample" after a sample load.  *)
(***************************************************************************)
MaxFinders == 3
SearchSteps == 2

\* App.__init__
HamAppInit ==
    [app |-> "hamapp", graph |-> "empty", stops |-> <<FALSE>>, finder |-> 1, thread |-> "none",
     running |-> 0, left |-> 0, early |-> FALSE, stop_pressed |-> FALSE,
     dialogs |-> {}]

\* self.finder = HamiltonianFinder(self.graph)
NewFinder(a) == [a EXCEPT !.stops = Append(@, FALSE), !.finder = Len(a.stops) + 1]

\* search_thread.is_alive()
is_alive(a) == a.thread \in {"started", "running"}

\* App.on_graph_type_change, and the graph and finder it replaces
HamApp_on_graph_type_change ==
    /\ HamAppFrame
    /\ hamapp.app = "hamapp"
    /\ Len(hamapp.stops) < MaxFinders
    /\ hamapp' = [NewFinder(hamapp) EXCEPT !.graph = "empty"]

\* App.load_sample_cycle, load_sample_no_cycle, load_sample_directed
HamApp_load_sample ==
    /\ HamAppFrame
    /\ hamapp.app = "hamapp"
    /\ Len(hamapp.stops) < MaxFinders
    /\ hamapp' = [NewFinder(hamapp) EXCEPT !.graph = "sample"]

\* App.start_search
HamApp_start_search ==
    /\ HamAppFrame
    /\ hamapp.app = "hamapp"
    /\ IF is_alive(hamapp)
       THEN hamapp' = [hamapp EXCEPT !.dialogs = @ \cup {"Search running"}]
       ELSE /\ Len(hamapp.stops) < MaxFinders
            /\ \E limit_ok \in BOOLEAN :
                  IF limit_ok
                  THEN hamapp' = [NewFinder(hamapp) EXCEPT
                                     !.thread = "started", !.running = 0,
                                     !.left = SearchSteps, !.early = FALSE,
                                     !.stop_pressed = FALSE]
                  ELSE hamapp' = [NewFinder(hamapp) EXCEPT
                                     !.dialogs = @ \cup {"Input error"}]

\* App.stop_search: self.finder.stop()
stop_search(a) ==
    [a EXCEPT !.stops[a.finder] = TRUE, !.stop_pressed = @ \/ is_alive(a)]

HamApp_stop_search ==
    /\ HamAppFrame
    /\ hamapp.app = "hamapp"
    /\ hamapp' = stop_search(hamapp)

\* The thread evaluates self.finder in "self.finder.find_one_cycle()" or
\* "self.finder.find_all_cycles(limit=limit)"
HamApp_search_begin ==
    /\ HamAppFrame
    /\ hamapp.app = "hamapp" /\ hamapp.thread = "started"
    /\ hamapp' = [hamapp EXCEPT !.thread = "running", !.running = hamapp.finder]

\* One call of backtrack() in the thread: "if self._stop: return", and the
\* end of the search
HamApp_search_step ==
    /\ HamAppFrame
    /\ hamapp.app = "hamapp" /\ hamapp.thread = "running"
    /\ IF hamapp.stops[hamapp.running] /\ hamapp.left > 0
       THEN hamapp' = [hamapp EXCEPT !.thread = "done", !.early = TRUE]
       ELSE IF hamapp.left = 0
       THEN hamapp' = [hamapp EXCEPT !.thread = "done"]
       ELSE hamapp' = [hamapp EXCEPT !.left = @ - 1]

InitHamApp ==
    /\ dj = DjOff /\ sim = Off /\ bfapp = Off /\ ham = Off /\ euler = Off
    /\ flow = Off /\ signed = Off /\ circuit = Off /\ scc = Off /\ maze = Off /\ perm = Off /\ trav = Off
    /\ hamapp = HamAppInit

NextHamApp ==
    \/ HamApp_on_graph_type_change
    \/ HamApp_load_sample
    \/ HamApp_start_search
    \/ HamApp_stop_search
    \/ HamApp_search_begin
    \/ HamApp_search_step

SpecHamApp == InitHamApp /\ [][NextHamApp]_vars

\* C19: if Stop is pressed while a search thread is alive, the finder that
\* thread is running has its stop flag set, whatever graph-type changes and
\* sample loads were made since the search was started.
C19_StopReachesRunningFinder ==
    (hamapp.app = "hamapp" /\ hamapp.stop_pressed /\ hamapp.thread = "running") =>
        hamapp.stops[hamapp.running]

(***************************************************************************)
(* Circular Permutation Visualizer: CircularPermApp.                       *)
(*                                                                         *)
(* permutations is the length of self.permutations, whose contents no      *)
(* statement below depends on.  The handlers run on the main thread, one   *)
(* at a time; generate_permutations is followed statement by statement     *)
(* (pc "append", "reset", "show"), since the autoplay threads run between  *)
(* its statements.  threads holds, for each live autoplay thread, the      *)
(* statement it is at: "while", "if" and "mod" (next_perm), "check" and    *)
(* "index" (show_current), "sleep".  An exception ends the thread.         *)
(*   index_error  self.permutations[self.current_index] was evaluated      *)
(*                with the list empty or the index out of range            *)
(***************************************************************************)
MaxItems == 4
MaxAutoplay == 2

RECURSIVE Factorial(_)
Factorial(n) == IF n <= 1 THEN 1 ELSE n * Factorial(n - 1)

\* self.permutations[self.current_index] does not raise
IndexInRange(p) == p.permutations > 0 /\ p.current_index >= 0 /\ p.current_index < p.permutations

\* CircularPermApp.__init__
PermInit ==
    [app |-> "perm", is_playing |-> FALSE, permutations |-> 0, current_index |-> 0,
     pc |-> "idle", todo |-> 0, threads |-> <<>>, dialogs |-> {},
     index_error |-> FALSE, uncaught |-> {}]

\* show_current
show_current(p) ==
    IF p.permutations = 0 THEN p
    ELSE IF IndexInRange(p) THEN p
    ELSE [p EXCEPT !.index_error = TRUE, !.uncaught = @ \cup {"IndexError"}]

\* generate_permutations up to "self.permutations = []"; n is the number of
\* items in the input box
Perm_generate_permutations ==
    /\ PermFrame
    /\ perm.app = "perm" /\ perm.pc = "idle"
    /\ \E n \in 0 .. MaxItems :
          IF n < 2
          THEN perm' = [perm EXCEPT !.dialogs = @ \cup {"Error"}]
          ELSE perm' = [perm EXCEPT !.permutations = 0, !.todo = Factorial(n - 1),
                                    !.pc = "append"]

\* for perm in itertools.permutations(self.items[1:]): self.permutations.append(...)
Perm_generate_append ==
    /\ PermFrame
    /\ perm.app = "perm" /\ perm.pc = "append"
    /\ IF perm.todo > 0
       THEN perm' = [perm EXCEPT !.permutations = @ + 1, !.todo = @ - 1]
       ELSE perm' = [perm EXCEPT !.pc = "reset"]

\* self.current_index = 0
Perm_generate_reset ==
    /\ PermFrame
    /\ perm.app = "perm" /\ perm.pc = "reset"
    /\ perm' = [perm EXCEPT !.current_index = 0, !.pc = "show"]

\* self.show_current() at the end of generate_permutations
Perm_generate_show ==
    /\ PermFrame
    /\ perm.app = "perm" /\ perm.pc = "show"
    /\ perm' = [show_current(perm) EXCEPT !.pc = "idle"]

\* prev_perm
Perm_prev_perm ==
    /\ PermFrame
    /\ perm.app = "perm" /\ perm.pc = "idle"
    /\ perm.permutations > 0
    /\ perm' = show_current([perm EXCEPT !.current_index =
                                (perm.current_index - 1) % perm.permutations])

\* next_perm, clicked
Perm_next_perm ==
    /\ PermFrame
    /\ perm.app = "perm" /\ perm.pc = "idle"
    /\ perm.permutations > 0
    /\ perm' = show_current([perm EXCEPT !.current_index =
                                (perm.current_index + 1) % perm.permutations])

\* start_play
Perm_start_play ==
    /\ PermFrame
    /\ perm.app = "perm" /\ perm.pc = "idle"
    /\ perm.permutations > 0
    /\ Len(perm.threads) < MaxAutoplay
    /\ perm' = [perm EXCEPT !.is_playing = TRUE, !.threads = Append(@, "while")]

\* stop_play
Perm_stop_play ==
    /\ PermFrame
    /\ perm.app = "perm" /\ perm.pc = "idle"
    /\ perm' = [perm EXCEPT !.is_playing = FALSE]

\* autoplay: the next statement of the i-th autoplay thread
Perm_autoplay ==
    /\ PermFrame
    /\ perm.app = "perm"
    /\ \E i \in DOMAIN perm.threads :
          LET at == perm.threads[i]
              goto(l) == [perm EXCEPT !.threads[i] = l]
              raise(e) == [perm EXCEPT !.threads = RemoveAt(@, i),
                                       !.uncaught = @ \cup {e}]
          IN  IF at = "while"
              THEN IF perm.is_playing THEN perm' = goto("if")
                   ELSE perm' = [perm EXCEPT !.threads = RemoveAt(@, i)]
              ELSE IF at = "if"
              THEN perm' = goto(IF perm.permutations > 0 THEN "mod" ELSE "sleep")
              ELSE IF at = "mod"
              THEN IF perm.permutations = 0
                   THEN perm' = raise("ZeroDivisionError")
                   ELSE perm' = [goto("check") EXCEPT !.current_index =
                                    (perm.current_index + 1) % perm.permutations]
              ELSE IF at = "check"
              THEN perm' = goto(IF perm.permutations = 0 THEN "sleep" ELSE "index")
              ELSE IF at = "index"
              THEN IF IndexInRange(perm) THEN perm' = goto("sleep")
                   ELSE perm' = [raise("IndexError") EXCEPT !.index_error = TRUE]
              ELSE perm' = goto("while")

InitPerm ==
    /\ dj = DjOff /\ sim = Off /\ bfapp = Off /\ ham = Off /\ euler = Off
    /\ flow = Off /\ signed = Off /\ circuit = Off /\ scc = Off /\ maze = Off /\ hamapp = Off
    /\ perm = PermInit /\ trav = Off

NextPerm ==
    \/ Perm_generate_permutations
    \/ Perm_generate_append
    \/ Perm_generate_reset
    \/ Perm_generate_show
    \/ Perm_prev_perm
    \/ Perm_next_perm
    \/ Perm_start_play
    \/ Perm_stop_play
    \/ Perm_autoplay

SpecPerm == InitPerm /\ [][NextPerm]_vars

\* C20: under any interleaving of the autoplay thread with Generate,
\* Previous, Next, Play and Stop, whenever the permutation list is indexed
\* by current_index the list is non-empty and
\* 0 <= current_index < len(permutations).
C20_IndexAlwaysInRange ==
    perm.app = "perm" => ~perm.index_error

(***************************************************************************)
(* Graph Traversal Visualizer (src/graph_traversal_visualizer.py).         *)
(*                                                                         *)
(* nodes is len(self.nodes): the coordinates decide only which node a     *)
(* click hits, and a click is given here by the node it hits.  The text   *)
(* of info_label, which no handler reads, is left out.                    *)
(* edges is self.edges, a list of neighbours for each node id below       *)
(* len(self.nodes).  run_dfs and run_bfs are followed from one root.update()   *)
(* to the next: root.update() dispatches pending events, so the handlers  *)
(* of the buttons and of the canvas may run at pc "dfs_update",           *)
(* "dfs_update2" and "bfs_update" as well as at "idle".                   *)
(* A frame of stack is one activation of dfs_visual: its node, the index  *)
(* of its list iterator, and, once reset has cleared self.edges while the *)
(* iterator was open, the list object the iterator still holds.           *)
(*   clicks      how many handlers ran inside root.update() during this    *)
(*               run, at most MaxClicks of them being followed             *)
(*   expanded    how many times dfs_visual was entered for / the queue     *)
(*               gave each node in this run                               *)
(*   result      for each algorithm, what its last run without            *)
(*               interference on the present graph left                   *)
(*   error       the run ended with an exception                          *)
(***************************************************************************)
TravNodes == 3
TravEdges == 3
MaxClicks == 1

TravIds == 0 .. (TravNodes - 1)

NoEdges == [n \in TravIds |-> <<>>]

NotExpanded == [n \in TravIds |-> 0]

NoResult == [done |-> FALSE, visited |-> {}, expanded |-> NotExpanded]

Algorithms == {"dfs", "bfs"}

UpdatePoints == {"dfs_update", "dfs_update2", "bfs_update"}

\* the main loop, or root.update() inside a run, can dispatch an event
CanDispatch(t) ==
    \/ t.pc = "idle"
    \/ t.pc \in UpdatePoints /\ t.clicks < MaxClicks

\* GraphTraversalApp.__init__
TravInit ==
    [app |-> "trav", nodes |-> 0, edges |-> NoEdges, selected_node |-> None,
     mode |-> "none", pc |-> "idle", algo |-> "none",
     visited |-> {}, stack |-> <<>>, queue |-> <<>>, current |-> None,
     expanded |-> NotExpanded, clicks |-> 0, error |-> FALSE, warned |-> FALSE,
     result |-> [a \in Algorithms |-> NoResult]]

\* the number of edges drawn
RECURSIVE CountEdges(_, _)
CountEdges(edges, n) ==
    IF n < 0 THEN 0 ELSE Len(edges[n]) + CountEdges(edges, n - 1)

\* get_clicked_node: what it can return for the points of the canvas, a
\* node within the radius or None
get_clicked_node(nodes) == {None} \cup (0 .. (nodes - 1))

\* self.nodes[node] in highlight_node, self.edges[node]: the node is there
HasNode(t, node) == node < t.nodes

\* "neighbor not in visited" taken to hold for every neighbour
unvisited_always(neighbor, visited) == TRUE

\* "neighbor not in visited"
unvisited(neighbor, visited) == neighbor \notin visited

\* a handler dispatched by the main loop, or by root.update() inside a run
dispatched(t) ==
    IF t.pc = "idle" THEN [t EXCEPT !.error = FALSE, !.warned = FALSE, !.clicks = 0]
    ELSE [t EXCEPT !.clicks = @ + 1]

\* the graph is no longer the one the recorded runs were made on
graph_changed(t) == [t EXCEPT !.result = [a \in Algorithms |-> NoResult]]

\* an exception leaves run_dfs / run_bfs and the callback
Trav_raise(t) ==
    [t EXCEPT !.pc = "idle", !.algo = "none", !.stack = <<>>, !.queue = <<>>,
              !.current = None, !.visited = {}, !.expanded = NotExpanded,
              !.error = TRUE]

\* add_node_mode
Trav_add_node_mode ==
    /\ trav.app = "trav"
    /\ CanDispatch(trav)
    /\ trav' = [dispatched(trav) EXCEPT !.mode = "node"]
    /\ TravFrame

\* add_edge_mode
Trav_add_edge_mode ==
    /\ trav.app = "trav"
    /\ CanDispatch(trav)
    /\ trav' = [dispatched(trav) EXCEPT !.mode = "edge"]
    /\ TravFrame

\* on_canvas_click
Trav_on_canvas_click ==
    /\ trav.app = "trav"
    /\ CanDispatch(trav)
    /\ LET t == dispatched(trav)
       IN  \/ /\ t.mode = "node"
              /\ t.nodes < TravNodes
              /\ trav' = [graph_changed(t) EXCEPT !.nodes = t.nodes + 1,
                                                  !.edges[t.nodes] = <<>>]
           \/ /\ t.mode = "edge"
              /\ \E clicked \in get_clicked_node(t.nodes) :
                   IF clicked = None THEN trav' = t
                   ELSE IF t.selected_node = None
                        THEN trav' = [t EXCEPT !.selected_node = clicked]
                   ELSE LET n1 == t.selected_node
                            n2 == clicked
                        IN  IF n1 /= n2 /\ ~SeqHas(t.edges[n1], n2)
                            THEN /\ CountEdges(t.edges, TravNodes - 1) < 2 * TravEdges
                                 /\ trav' = [graph_changed(t) EXCEPT
                                             !.edges = [t.edges EXCEPT
                                                           ![n1] = Append(t.edges[n1], n2),
                                                           ![n2] = Append(t.edges[n2], n1)],
                                             !.selected_node = None]
                            ELSE trav' = [t EXCEPT !.selected_node = None]
    /\ TravFrame

\* reset.  An open list iterator keeps the list it was made on.
Trav_reset ==
    /\ trav.app = "trav"
    /\ CanDispatch(trav)
    /\ LET t == dispatched(trav)
           keep(f) == IF f.started /\ ~f.detached
                      THEN [f EXCEPT !.list = t.edges[f.node], !.detached = TRUE]
                      ELSE f
       IN  trav' = [graph_changed(t) EXCEPT
                       !.nodes = 0, !.edges = NoEdges, !.selected_node = None,
                       !.mode = "none",
                       !.stack = [i \in DOMAIN t.stack |-> keep(t.stack[i])]]
    /\ TravFrame

\* run_dfs up to the call of dfs_visual(start, visited)
Trav_run_dfs ==
    /\ trav.app = "trav"
    /\ trav.pc = "idle"
    /\ LET t == dispatched(trav)
       IN  IF t.nodes = 0
           THEN trav' = [t EXCEPT !.warned = TRUE]
           ELSE trav' = [t EXCEPT !.pc = "dfs_call", !.algo = "dfs", !.visited = {},
                                  !.expanded = NotExpanded, !.clicks = 0,
                                  !.result["dfs"] = NoResult,
                                  !.stack = <<[node |-> 0, i |-> 0, started |-> FALSE,
                                               list |-> <<>>, detached |-> FALSE]>>]
    /\ TravFrame

\* dfs_visual: visited.add(node); highlight_node; root.update()
Trav_dfs_visual ==
    /\ trav.app = "trav"
    /\ trav.pc = "dfs_call"
    /\ LET node == Last(trav.stack).node
       IN  IF ~HasNode(trav, node) THEN trav' = Trav_raise(trav)
           ELSE trav' = [trav EXCEPT !.visited = @ \cup {node},
                                     !.expanded[node] = @ + 1,
                                     !.pc = "dfs_update"]
    /\ TravFrame

\* dfs_visual: time.sleep is over; "for neighbor in self.edges[node]" opens
\* its iterator
Trav_dfs_visual_for ==
    /\ trav.app = "trav"
    /\ trav.pc = "dfs_update"
    /\ LET top == Len(trav.stack)
           node == trav.stack[top].node
       IN  IF ~HasNode(trav, node) THEN trav' = Trav_raise(trav)
           ELSE trav' = [trav EXCEPT !.stack[top].started = TRUE, !.pc = "dfs_next"]
    /\ TravFrame

\* the list the iterator of a frame runs over
FrameList(t, f) == IF f.detached THEN f.list ELSE t.edges[f.node]

\* dfs_visual: one turn of the for loop, or, the list exhausted,
\* highlight_node and the second root.update()
Trav_dfs_visual_next ==
    /\ trav.app = "trav"
    /\ trav.pc = "dfs_next"
    /\ LET top == Len(trav.stack)
           f == trav.stack[top]
           list == FrameList(trav, f)
       IN  IF f.i < Len(list)
           THEN LET neighbor == list[f.i + 1]
                    stepped == [trav.stack EXCEPT ![top].i = f.i + 1]
                IN  IF unvisited(neighbor, trav.visited)
                    THEN /\ Len(trav.stack) <= TravNodes   \* depth explored
                         /\ trav' = [trav EXCEPT
                                        !.stack = Append(stepped,
                                                     [node |-> neighbor, i |-> 0, started |-> FALSE,
                                                      list |-> <<>>, detached |-> FALSE]),
                                        !.pc = "dfs_call"]
                    ELSE trav' = [trav EXCEPT !.stack = stepped]
           ELSE IF ~HasNode(trav, f.node) THEN trav' = Trav_raise(trav)
                ELSE trav' = [trav EXCEPT !.pc = "dfs_update2"]
    /\ TravFrame

\* what a completed run leaves
completed(t) ==
    [t EXCEPT !.pc = "idle", !.algo = "none", !.stack = <<>>, !.queue = <<>>,
              !.current = None, !.visited = {}, !.expanded = NotExpanded,
              !.clicks = 0,
              !.result[t.algo] = IF t.clicks > 0 THEN NoResult
                                 ELSE [done |-> TRUE, visited |-> t.visited,
                                       expanded |-> t.expanded]]

\* dfs_visual returns, to the for loop of its caller or to run_dfs, which
\* sets "DFS Complete!"
Trav_dfs_visual_return ==
    /\ trav.app = "trav"
    /\ trav.pc = "dfs_update2"
    /\ IF Len(trav.stack) = 1
       THEN trav' = completed(trav)
       ELSE trav' = [trav EXCEPT !.stack = Front(trav.stack), !.pc = "dfs_next"]
    /\ TravFrame

\* run_bfs up to the while loop
Trav_run_bfs ==
    /\ trav.app = "trav"
    /\ trav.pc = "idle"
    /\ LET t == dispatched(trav)
       IN  IF t.nodes = 0
           THEN trav' = [t EXCEPT !.warned = TRUE]
           ELSE trav' = [t EXCEPT !.pc = "bfs_while", !.algo = "bfs", !.visited = {0},
                                  !.queue = <<0>>, !.expanded = NotExpanded,
                                  !.clicks = 0, !.result["bfs"] = NoResult]
    /\ TravFrame

\* run_bfs: "while queue", queue.pop(0), highlight_node, root.update(); or
\* "BFS Complete!"
Trav_bfs_pop ==
    /\ trav.app = "trav"
    /\ trav.pc = "bfs_while"
    /\ IF trav.queue = <<>>
       THEN trav' = completed(trav)
       ELSE LET current == Head(trav.queue)
            IN  /\ trav.expanded[current] <= TravNodes   \* turns explored
                /\ IF ~HasNode(trav, current)
                   THEN trav' = Trav_raise(trav)
                   ELSE trav' = [trav EXCEPT !.queue = Tail(trav.queue),
                                             !.current = current,
                                             !.expanded[current] = @ + 1,
                                             !.pc = "bfs_update"]
    /\ TravFrame

\* "for neighbor in self.edges[current]" of run_bfs from the i-th neighbour
\* on: the visited set and the queue it leaves
RECURSIVE bfs_for(_, _, _, _)
bfs_for(list, i, visited, queue) ==
    IF i > Len(list) THEN [visited |-> visited, queue |-> queue]
    ELSE IF unvisited(list[i], visited)
         THEN bfs_for(list, i + 1, visited \cup {list[i]}, Append(queue, list[i]))
         ELSE bfs_for(list, i + 1, visited, queue)

\* run_bfs: time.sleep is over; the for loop over the neighbours of current
Trav_bfs_for ==
    /\ trav.app = "trav"
    /\ trav.pc = "bfs_update"
    /\ IF ~HasNode(trav, trav.current) THEN trav' = Trav_raise(trav)
       ELSE LET r == bfs_for(trav.edges[trav.current], 1, trav.visited, trav.queue)
            IN  trav' = [trav EXCEPT !.visited = r.visited, !.queue = r.queue,
                                     !.current = None, !.pc = "bfs_while"]
    /\ TravFrame

\* Run DFS or Run BFS clicked while root.update() of a run dispatches
\* events: the inner run works on sets of its own and, the graph having
\* its nodes, returns; the outer run goes on.
Trav_run_inside_update ==
    /\ trav.app = "trav"
    /\ trav.pc \in UpdatePoints
    /\ CanDispatch(trav)
    /\ IF trav.nodes = 0
       THEN trav' = [dispatched(trav) EXCEPT !.warned = TRUE]
       ELSE trav' = dispatched(trav)
    /\ TravFrame

InitTrav ==
    /\ dj = DjOff /\ sim = Off /\ bfapp = Off /\ ham = Off /\ euler = Off
    /\ flow = Off /\ signed = Off /\ circuit = Off /\ scc = Off /\ maze = Off /\ hamapp = Off
    /\ perm = Off /\ trav = TravInit

NextTrav ==
    \/ Trav_run_inside_update
    \/ Trav_add_node_mode
    \/ Trav_add_edge_mode
    \/ Trav_on_canvas_click
    \/ Trav_reset
    \/ Trav_run_dfs
    \/ Trav_dfs_visual
    \/ Trav_dfs_visual_for
    \/ Trav_dfs_visual_next
    \/ Trav_dfs_visual_return
    \/ Trav_run_bfs
    \/ Trav_bfs_pop
    \/ Trav_bfs_for

SpecTrav == InitTrav /\ [][NextTrav]_vars

\* the nodes that a path of edges joins to the nodes of S
RECURSIVE TravReachable(_, _)
TravReachable(edges, S) ==
    LET T == S \cup {n \in TravIds : \E m \in S : SeqHas(edges[m], n)}
    IN  IF T = S THEN S ELSE TravReachable(edges, T)

\* C21: on any graph built in the visualizer, when no other click is
\* processed during the animation, run_dfs and run_bfs each end without an
\* exception having marked as visited exactly the nodes reachable from
\* node 0, each of them expanded exactly once and no other node expanded;
\* while such a run is under way no node has been expanded twice and only
\* reachable nodes are marked.
C21_TraversalVisitsReachableOnce ==
    trav.app = "trav" =>
        LET reach == TravReachable(trav.edges, {0})
        IN  /\ \A a \in Algorithms :
                 trav.result[a].done =>
                     /\ trav.result[a].visited = reach
                     /\ \A n \in TravIds :
                          trav.result[a].expanded[n] = IF n \in reach THEN 1 ELSE 0
            /\ (trav.pc /= "idle" /\ trav.clicks = 0) =>
                     /\ trav.visited \subseteq reach
                     /\ \A n \in TravIds : trav.expanded[n] <= 1
            /\ trav.error => trav.clicks > 0

\* Both traversals have run to their end, without a click in between, on a
\* triangle 0-1-2, where every node is met again from a node marked before.
C21_Witness ==
    /\ trav.app = "trav"
    /\ trav.nodes = TravNodes
    /\ \A n \in {0, 1, 2} : Len(trav.edges[n]) = 2
    /\ trav.result["dfs"].done
    /\ trav.result["bfs"].done
    /\ trav.result["dfs"].visited = {0, 1, 2}

====
